---- MODULE Spec2Model ----
(***************************************************************************)
(* Model of the semantic-search subsystem of cncorp/arsenal:               *)
(*   src/dot-claude/skills/semantic-search/src/database.py                 *)
(*   src/dot-claude/skills/semantic-search/src/cli.py                      *)
(* and of the prompt push script                                           *)
(*   src/dot-claude/skills/update-langfuse-staging-server-prompt/          *)
(*       push_to_staging.py, env_loader.py                                 *)
(*                                                                         *)
(* A process constructs one store object (VectorDB for the fixed-schema    *)
(* code index, ConfigurableTableSearch for the configured production       *)
(* tables) and calls its methods.  SQL statements are sequences of tokens, *)
(* built the way the f-strings of the source build them, and the store     *)
(* executes a statement by interpreting its tokens with the parameters     *)
(* bound to the placeholders in order, as psycopg2 does.                   *)
(***************************************************************************)
EXTENDS Integers, Sequences, FiniteSets, TLC

VARIABLES db, conn, config, rows, code_elements, call, fs, schema, proc

vars == <<db, conn, config, rows, code_elements, call, fs, schema, proc>>

(***************************************************************************)
(* Bounds of the model.                                                    *)
(***************************************************************************)
\* dimension of the embedding column (vector(1536) in the schema), scaled
Dim == 2
\* largest number of rows a table holds
MaxRows == 2
\* largest limit a caller passes
MaxLimit == 2

(***************************************************************************)
(* Optional values: None is the empty sequence, Some(v) a singleton.       *)
(***************************************************************************)
None == <<>>

Some(v) == <<v>>

IsNone(o) == Len(o) = 0

Get(o) == o[1]

(***************************************************************************)
(* Embedding vectors: sequences of integers.  A vector is degenerate when  *)
(* its norm is zero.                                                       *)
(***************************************************************************)
Unit(d, i) == [j \in 1..d |-> IF j = i THEN 1 ELSE 0]

E1 == Unit(Dim, 1)

NegE1 == [j \in 1..Dim |-> IF j = 1 THEN -1 ELSE 0]

Diag == [j \in 1..Dim |-> IF j <= 2 THEN 1 ELSE 0]

Twice == [j \in 1..Dim |-> IF j = 1 THEN 2 ELSE 0]

Zero == [j \in 1..Dim |-> 0]

Short == Unit(Dim - 1, 1)

RECURSIVE DotTo(_, _, _)
DotTo(a, b, n) == IF n = 0 THEN 0 ELSE DotTo(a, b, n - 1) + a[n] * b[n]

Dot(a, b) == DotTo(a, b, Len(a))

IsDegenerate(v) == Dot(v, v) = 0

(***************************************************************************)
(* pgvector's cosine operator a <=> b and the projected score 1 - (a<=>b). *)
(* The cosine dot/(|a||b|) is kept exactly as the signed square            *)
(* sgn(dot)*dot^2 / (|a|^2 |b|^2), which orders as the cosine does; a zero *)
(* denominator is the NaN pgvector returns for a zero-norm operand.        *)
(***************************************************************************)
Cosine(a, b) ==
    LET d == Dot(a, b)
    IN  [num |-> IF d >= 0 THEN d * d ELSE -(d * d), den |-> Dot(a, a) * Dot(b, b)]

IsNaN(s) == s.den = 0

\* s is the score 1.0 (cosine distance 0)
IsOne(s) == ~IsNaN(s) /\ s.num = s.den

\* IEEE comparisons of two scores: false as soon as one is NaN
ScoreLess(s, t) == ~IsNaN(s) /\ ~IsNaN(t) /\ s.num * t.den < t.num * s.den

ScoreGeq(s, t) == ~IsNaN(s) /\ ~IsNaN(t) /\ s.num * t.den >= t.num * s.den

\* PostgreSQL's ordering of the distance 1 - cosine, ascending: a smaller
\* distance is a larger cosine, and NaN sorts after every number.
DistanceBefore(s, t) ==
    IF IsNaN(s) THEN FALSE
    ELSE IF IsNaN(t) THEN TRUE
    ELSE s.num * t.den > t.num * s.den

(***************************************************************************)
(* The loaded table configuration (tables.yaml).  An optional key of the   *)
(* YAML mapping is None when absent.  A column reference such as           *)
(* "r.content" is the token sequence <<"r", ".", "content">>; a join is    *)
(* one raw fragment.  The four logical tables cover the four filter        *)
(* combinations, over the physical table "records".                        *)
(***************************************************************************)
NoFilters ==
    [time_column |-> None, default_hours |-> None,
     confidence_column |-> None, default_min_confidence |-> None]

TablesYaml ==
    [tables |->
        [n \in {"messages", "facts", "events", "notes"} |->
            CASE n = "messages" ->
                   [table |-> "records", alias |-> Some("m"),
                    content_column |-> "content", embedding_column |-> "embedding",
                    display_columns |-> Some(<< <<"m", ".", "id">>, <<"m", ".", "created_at">> >>),
                    joins |-> <<"JOIN persons p ON p.id = m.sender_id",
                                "LEFT JOIN threads t ON t.id = m.thread_id">>,
                    filters |-> [NoFilters EXCEPT !.time_column = Some("created_at"),
                                                  !.default_hours = Some(72)]]
              [] n = "facts" ->
                   [table |-> "records", alias |-> None,
                    content_column |-> "content", embedding_column |-> "embedding",
                    display_columns |-> Some(<< <<"r", ".", "id">>, <<"r", ".", "confidence">> >>),
                    joins |-> <<"JOIN persons p ON p.id = r.person_id">>,
                    filters |-> [NoFilters EXCEPT !.confidence_column = Some("confidence"),
                                                  !.default_min_confidence = Some(6)]]
              [] n = "events" ->
                   [table |-> "records", alias |-> Some("e"),
                    content_column |-> "content", embedding_column |-> "embedding",
                    display_columns |-> None,
                    joins |-> <<>>,
                    filters |-> [NoFilters EXCEPT !.time_column = Some("created_at"),
                                                  !.confidence_column = Some("confidence")]]
              [] OTHER ->
                   [table |-> "records", alias |-> Some("n"),
                    content_column |-> "content", embedding_column |-> "embedding",
                    display_columns |-> None,
                    joins |-> <<>>,
                    filters |-> NoFilters]]]

\* table[0], the first letter of a physical table name
FirstLetter(table) == IF table = "records" THEN "r" ELSE "x"

\* filters.get("default_hours", 168)
DefaultHours == 168

\* filters.get("default_min_confidence", 0.0); confidences are in tenths
DefaultMinConfidence == 0

(***************************************************************************)
(* Statement assembly of ConfigurableTableSearch.search.                   *)
(***************************************************************************)
RECURSIVE JoinWith(_, _)
\* sep.join(items), for items that are token sequences
JoinWith(items, sep) ==
    IF Len(items) = 0 THEN <<>>
    ELSE IF Len(items) = 1 THEN items[1]
    ELSE items[1] \o sep \o JoinWith(Tail(items), sep)

Alias(tc) == IF IsNone(tc.alias) THEN FirstLetter(tc.table) ELSE Get(tc.alias)

Col(tc, c) == <<Alias(tc), ".", c>>

display_cols(tc) ==
    IF IsNone(tc.display_columns)
    THEN <<Col(tc, "id"), Col(tc, tc.content_column)>>
    ELSE Get(tc.display_columns)

select_clause(tc) ==
    JoinWith(display_cols(tc), <<",">>)
    \o <<",", "1 - (">> \o Col(tc, tc.embedding_column)
    \o <<"<=>", "%s", "::vector)", "as similarity_score">>

\* the joins taken in reverse
from_clause_reversed(tc) ==
    <<tc.table, Alias(tc)>>
    \o [i \in 1..Len(tc.joins) |-> tc.joins[Len(tc.joins) + 1 - i]]

from_clause(tc) == <<tc.table, Alias(tc)>> \o tc.joins

TimePredicate(tc) ==
    IF IsNone(tc.filters.time_column) THEN <<>>
    ELSE <<Col(tc, Get(tc.filters.time_column))
           \o <<">=", "NOW() - INTERVAL", "'", "%s", "hours", "'">> >>

ConfidencePredicate(tc) ==
    IF IsNone(tc.filters.confidence_column) THEN <<>>
    ELSE <<Col(tc, Get(tc.filters.confidence_column)) \o <<">=", "%s">> >>

where_conditions(tc) ==
    <<Col(tc, tc.embedding_column) \o <<"IS NOT NULL">> >>
    \o TimePredicate(tc) \o ConfidencePredicate(tc)

where_clause(tc) == JoinWith(where_conditions(tc), <<"AND">>)

\* an ordering by the embedding column of a joined table
order_clause_joined(tc) == <<"p", ".", tc.embedding_column, "<=>", "%s", "::vector">>

order_clause(tc) == Col(tc, tc.embedding_column) \o <<"<=>", "%s", "::vector">>

query(tc) ==
    <<"SELECT">> \o select_clause(tc)
    \o <<"FROM">> \o from_clause(tc)
    \o <<"WHERE">> \o where_clause(tc)
    \o <<"ORDER BY">> \o order_clause(tc)
    \o <<"LIMIT", "%s">>

(***************************************************************************)
(* Parameters.  psycopg2 adapts a Python list to an array literal and a    *)
(* number to a numeric literal.                                            *)
(***************************************************************************)
AdaptList(v) == [kind |-> "list", val |-> v]

AdaptNum(n) == [kind |-> "num", val |-> <<n>>]

\* hours if hours is not None else filters.get("default_hours", 168)
effective_hours(tc, hours) ==
    IF ~IsNone(hours) THEN Get(hours)
    ELSE IF ~IsNone(tc.filters.default_hours) THEN Get(tc.filters.default_hours)
    ELSE DefaultHours

\* the confidence bound chosen by truthiness (min_confidence or default)
effective_conf_falsy(tc, min_confidence) ==
    IF ~IsNone(min_confidence) /\ Get(min_confidence) # 0 THEN Get(min_confidence)
    ELSE IF ~IsNone(tc.filters.default_min_confidence)
         THEN Get(tc.filters.default_min_confidence)
    ELSE DefaultMinConfidence

\* min_confidence if min_confidence is not None
\*     else filters.get("default_min_confidence", 0.0)
effective_conf(tc, min_confidence) ==
    IF ~IsNone(min_confidence) THEN Get(min_confidence)
    ELSE IF ~IsNone(tc.filters.default_min_confidence)
         THEN Get(tc.filters.default_min_confidence)
    ELSE DefaultMinConfidence

\* parameters that hold every filter value the caller passes
params_passed(tc, query_embedding, limit, hours, min_confidence) ==
    <<AdaptList(query_embedding)>>
    \o (IF IsNone(tc.filters.time_column) /\ IsNone(hours) THEN <<>>
        ELSE <<AdaptNum(effective_hours(tc, hours))>>)
    \o (IF IsNone(tc.filters.confidence_column) /\ IsNone(min_confidence) THEN <<>>
        ELSE <<AdaptNum(effective_conf(tc, min_confidence))>>)
    \o <<AdaptList(query_embedding), AdaptNum(limit)>>

\* parameters with the confidence bound before the hours
params_swapped(tc, query_embedding, limit, hours, min_confidence) ==
    <<AdaptList(query_embedding)>>
    \o (IF IsNone(tc.filters.confidence_column) THEN <<>>
        ELSE <<AdaptNum(effective_conf(tc, min_confidence))>>)
    \o (IF IsNone(tc.filters.time_column) THEN <<>>
        ELSE <<AdaptNum(effective_hours(tc, hours))>>)
    \o <<AdaptList(query_embedding), AdaptNum(limit)>>

params(tc, query_embedding, limit, hours, min_confidence) ==
    <<AdaptList(query_embedding)>>
    \o (IF IsNone(tc.filters.time_column) THEN <<>>
        ELSE <<AdaptNum(effective_hours(tc, hours))>>)
    \o (IF IsNone(tc.filters.confidence_column) THEN <<>>
        ELSE <<AdaptNum(effective_conf(tc, min_confidence))>>)
    \o <<AdaptList(query_embedding), AdaptNum(limit)>>

\* compiled without the LIMIT clause and its parameter
compiled_unlimited(tc, query_embedding, limit, hours, min_confidence) ==
    LET text == query(tc)
        ps   == params(tc, query_embedding, limit, hours, min_confidence)
    IN  [text |-> SubSeq(text, 1, Len(text) - 2), params |-> SubSeq(ps, 1, Len(ps) - 1)]

\* compiled with the ordering reversed (ORDER BY ... DESC)
compiled_descending(tc, query_embedding, limit, hours, min_confidence) ==
    LET text == query(tc)
    IN  [text |-> SubSeq(text, 1, Len(text) - 2) \o <<"DESC", "LIMIT", "%s">>,
         params |-> params(tc, query_embedding, limit, hours, min_confidence)]

\* the statement and the parameter list handed to cur.execute
compiled(tc, query_embedding, limit, hours, min_confidence) ==
    [text |-> query(tc),
     params |-> params(tc, query_embedding, limit, hours, min_confidence)]

\* an unknown-table error that lists no name
AvailableOmitted(tables) == {}

\* list(tables.keys()), the names the unknown-table error lists
Available(tables) == DOMAIN tables

(***************************************************************************)
(* The store.  cur.execute(text, ps) binds the k-th parameter to the k-th  *)
(* placeholder of the text and runs the statement: the rows of the table   *)
(* that satisfy every condition of the WHERE clause, ordered by the        *)
(* ORDER BY distance (rows of equal distance in any order), cut by LIMIT.  *)
(* A timestamp is a number of hours relative to NOW().  Joins are taken to *)
(* match every row exactly once.                                           *)
(***************************************************************************)
Has(text, tok) == \E i \in 1..Len(text) : text[i] = tok

\* position of the first occurrence of tok
Pos(text, tok) ==
    CHOOSE i \in 1..Len(text) : text[i] = tok /\ \A j \in 1..(i - 1) : text[j] # tok

Placeholders(text) == {i \in 1..Len(text) : text[i] = "%s"}

\* the parameter bound to the placeholder at position p
ParamAt(text, ps, p) == ps[Cardinality({i \in 1..p : text[i] = "%s"})]

Num(param) == param.val[1]

\* the placeholder at position p stands between two quotes of a literal
InQuotedLiteral(text, p) ==
    Cardinality({i \in 1..(p - 1) : text[i] = "'"}) % 2 = 1

OrderEnd(text) == IF Has(text, "LIMIT") THEN Pos(text, "LIMIT") - 1 ELSE Len(text)

\* position of the distance operator in the projection and in the ordering
SelectOp(text) ==
    CHOOSE i \in Pos(text, "SELECT")..Pos(text, "FROM") : text[i] = "<=>"

OrderOp(text) ==
    CHOOSE i \in Pos(text, "ORDER BY")..OrderEnd(text) : text[i] = "<=>"

\* first positions of the conditions of the WHERE clause
CondStarts(text) ==
    {i \in (Pos(text, "WHERE") + 1)..(Pos(text, "ORDER BY") - 1) :
        text[i - 1] \in {"WHERE", "AND"}}

\* position of the comparison of the condition that starts at i
CondOp(text, i) ==
    CHOOSE j \in i..Len(text) :
        /\ text[j] \in {"IS NOT NULL", ">="}
        /\ \A k \in i..(j - 1) : text[k] \notin {"IS NOT NULL", ">="}

\* position of the placeholder of the condition that starts at i (0: none)
CondPlaceholder(text, i) ==
    LET op == CondOp(text, i)
    IN  IF text[op] = "IS NOT NULL" THEN 0
        ELSE IF text[op + 1] = "%s" THEN op + 1
        ELSE op + 3

CondHolds(text, ps, i, row) ==
    LET op == CondOp(text, i)
        v  == row[text[op - 1]]
    IN  IF text[op] = "IS NOT NULL" THEN ~IsNone(v)
        ELSE IF text[op + 1] = "%s" THEN v >= Num(ParamAt(text, ps, op + 1))
        ELSE v >= 0 - Num(ParamAt(text, ps, op + 3))

\* names of the projected columns: the last token of each item before the score
OutputColumns(text) ==
    {text[i] : i \in {j \in (Pos(text, "SELECT") + 1)..(Pos(text, "1 - (") - 2) :
                        text[j + 1] = ","}}

\* the kinds of the bound parameters fit the places they are bound to
WellTyped(text, ps) ==
    /\ ParamAt(text, ps, SelectOp(text) + 1).kind = "list"
    /\ ParamAt(text, ps, OrderOp(text) + 1).kind = "list"
    /\ Has(text, "LIMIT") => ParamAt(text, ps, Pos(text, "LIMIT") + 1).kind = "num"
    /\ \A i \in CondStarts(text) :
          CondPlaceholder(text, i) # 0 =>
              ParamAt(text, ps, CondPlaceholder(text, i)).kind = "num"

WithId(table, i) == [id |-> i] @@ table[i]

\* rows of the table that satisfy the WHERE clause
Candidates(text, ps, table) ==
    {i \in 1..Len(table) :
        \A c \in CondStarts(text) : CondHolds(text, ps, c, WithId(table, i))}

EmbeddingOf(text, table, i, op) == table[i][text[op - 1]]

\* the distance key of row i under the ORDER BY clause (NULL sorts with NaN)
OrderKey(text, ps, table, i) ==
    LET e == EmbeddingOf(text, table, i, OrderOp(text))
    IN  IF IsNone(e) THEN [num |-> 0, den |-> 0]
        ELSE Cosine(Get(e), ParamAt(text, ps, OrderOp(text) + 1).val)

\* the projection with the sign wrong: (a <=> b) - 1
ScoreNegated(text, ps, table, i) ==
    LET e == EmbeddingOf(text, table, i, SelectOp(text))
        c == Cosine(Get(e), ParamAt(text, ps, SelectOp(text) + 1).val)
    IN  IF IsNone(e) THEN [num |-> 0, den |-> 0]
        ELSE [num |-> 0 - c.num, den |-> c.den]

\* the projected similarity_score of row i
Score(text, ps, table, i) ==
    LET e == EmbeddingOf(text, table, i, SelectOp(text))
    IN  IF IsNone(e) THEN [num |-> 0, den |-> 0]
        ELSE Cosine(Get(e), ParamAt(text, ps, SelectOp(text) + 1).val)

\* the orders ORDER BY may produce: every arrangement of the candidates in
\* which no row comes after a row of strictly greater distance
SortedOrders(text, ps, table) ==
    LET cand == Candidates(text, ps, table)
        n    == Cardinality(cand)
        desc == text[OrderEnd(text)] = "DESC"
    IN  {p \in [1..n -> cand] :
            /\ \A i, j \in 1..n : i # j => p[i] # p[j]
            /\ \A i, j \in 1..n : i < j =>
                  IF desc
                  THEN ~DistanceBefore(OrderKey(text, ps, table, p[i]),
                                       OrderKey(text, ps, table, p[j]))
                  ELSE ~DistanceBefore(OrderKey(text, ps, table, p[j]),
                                       OrderKey(text, ps, table, p[i]))}

Min(a, b) == IF a <= b THEN a ELSE b

\* some compared row has an embedding of another dimension than the vector
DimensionsDiffer(text, ps, table) ==
    \E i \in Candidates(text, ps, table) :
        \E op \in {SelectOp(text), OrderOp(text)} :
            LET e == EmbeddingOf(text, table, i, op)
            IN  ~IsNone(e) /\ Len(Get(e)) # Len(ParamAt(text, ps, op + 1).val)

ResultRow(text, ps, table, i) ==
    [rid |-> i,
     data |-> [c \in OutputColumns(text) |-> WithId(table, i)[c]],
     similarity_score |-> Score(text, ps, table, i)]

StoreError == [status |-> "error", fetched |-> <<>>]

\* the outcomes of cur.execute(text, ps) followed by cur.fetchall()
Execute(text, ps, table) ==
    IF Cardinality(Placeholders(text)) # Len(ps) THEN {StoreError}
    ELSE IF ~WellTyped(text, ps) THEN {StoreError}
    ELSE LET limited == Has(text, "LIMIT")
             lim     == IF limited THEN Num(ParamAt(text, ps, Pos(text, "LIMIT") + 1)) ELSE 0
         IN  IF limited /\ lim < 0 THEN {StoreError}
             ELSE IF limited /\ lim = 0 THEN {[status |-> "ok", fetched |-> <<>>]}
             ELSE IF DimensionsDiffer(text, ps, table) THEN {StoreError}
             ELSE {[status |-> "ok",
                    fetched |->
                        [k \in 1..(IF limited THEN Min(lim, Len(p)) ELSE Len(p)) |->
                            ResultRow(text, ps, table, p[k])]] :
                   p \in SortedOrders(text, ps, table)}

(***************************************************************************)
(* VectorDB: the fixed schema, insert, search_similar, clear_all.          *)
(***************************************************************************)
\* the INSERT with the embedding column left out of the column list
InsertTextNoEmbedding ==
    <<"INSERT INTO", "code_elements", "(",
      "file_path", ",", "element_name", ",", "element_type", ",", "signature", ",",
      "docstring", ",", "searchable_text", ")",
      "VALUES", "(", "%s", ",", "%s", ",", "%s", ",", "%s", ",", "%s", ",", "%s", ",",
      "%s", ")">>

InsertText ==
    <<"INSERT INTO", "code_elements", "(",
      "file_path", ",", "element_name", ",", "element_type", ",", "signature", ",",
      "docstring", ",", "searchable_text", ",", "embedding", ")",
      "VALUES", "(", "%s", ",", "%s", ",", "%s", ",", "%s", ",", "%s", ",", "%s", ",",
      "%s", ")">>

SearchSimilarText ==
    <<"SELECT", "file_path", ",", "element_name", ",", "element_type", ",",
      "signature", ",", "docstring", ",",
      "1 - (", "embedding", "<=>", "%s", "::vector)", "as similarity_score",
      "FROM", "code_elements",
      "WHERE", "embedding", "IS NOT NULL",
      "ORDER BY", "embedding", "<=>", "%s", "::vector",
      "LIMIT", "%s">>

\* search_similar with the ordering reversed
similar_descending(query_embedding, limit) ==
    [text |-> SubSeq(SearchSimilarText, 1, Len(SearchSimilarText) - 2)
              \o <<"DESC", "LIMIT", "%s">>,
     params |-> <<AdaptList(query_embedding), AdaptList(query_embedding),
                  AdaptNum(limit)>>]

\* the statement and the parameter tuple of search_similar
similar(query_embedding, limit) ==
    [text |-> SearchSimilarText,
     params |-> <<AdaptList(query_embedding), AdaptList(query_embedding),
                  AdaptNum(limit)>>]

\* embeddings.create_searchable_text: the present fields, in the fixed order
create_searchable_text(name, signature, docstring) ==
    SelectSeq(<<name, signature, docstring>>, LAMBDA f : f # "")

\* the column names of an INSERT, in order
InsertColumns(text) ==
    SelectSeq(SubSeq(text, Pos(text, "(") + 1, Pos(text, ")") - 1), LAMBDA t : t # ",")

\* the outcome of cur.execute(INSERT, ps): the new table, or an error when
\* the row breaks the schema (embedding vector(1536), NOT NULL columns)
ExecuteInsert(text, ps, table) ==
    LET cols == InsertColumns(text)
        row  == [c \in {cols[k] : k \in 1..Len(cols)} |->
                    ps[CHOOSE k \in 1..Len(cols) : cols[k] = c]]
    IN  IF Len(cols) # Len(ps) \/ Cardinality(Placeholders(text)) # Len(ps)
        THEN [status |-> "error", table |-> table]
        ELSE IF ~IsNone(row["embedding"]) /\ Len(Get(row["embedding"])) # Dim
        THEN [status |-> "error", table |-> table]
        ELSE [status |-> "ok", table |-> Append(table, row)]

\* a DELETE that spares the rows that have an embedding
ClearTextWhere == <<"DELETE FROM", "code_elements", "WHERE", "embedding", "IS NULL">>

\* the DELETE of clear_all
ClearText == <<"DELETE FROM", "code_elements">>

\* the outcome of cur.execute(DELETE): the rows the statement leaves, every
\* row going when the statement has no WHERE clause
ExecuteDelete(text, table) ==
    IF ~Has(text, "WHERE") THEN <<>>
    ELSE LET op == CHOOSE j \in 1..Len(text) : text[j] \in {"IS NULL", "IS NOT NULL"}
         IN  SelectSeq(table,
                       LAMBDA row : IF text[op] = "IS NULL"
                                    THEN ~IsNone(row[text[op - 1]])
                                    ELSE IsNone(row[text[op - 1]]))

(***************************************************************************)
(* The schema of the code index.  The schema state is the set of the       *)
(* objects that exist in the database; a statement is its kind, whether it *)
(* says IF NOT EXISTS, the object it creates and the objects it needs.     *)
(* The connection is in autocommit mode, so what the statements before a   *)
(* failing one created stays.                                              *)
(***************************************************************************)
\* the three statements with IF NOT EXISTS left out
SchemaStatementsBare ==
    << [create |-> "EXTENSION", if_not_exists |-> FALSE, name |-> "vector",
        needs |-> {}],
       [create |-> "TABLE", if_not_exists |-> FALSE, name |-> "code_elements",
        needs |-> {"vector"}],
       [create |-> "INDEX", if_not_exists |-> FALSE,
        name |-> "idx_code_elements_embedding", needs |-> {"code_elements"}] >>

\* the three statements of _ensure_schema, in order
SchemaStatements ==
    << [create |-> "EXTENSION", if_not_exists |-> TRUE, name |-> "vector",
        needs |-> {}],
       [create |-> "TABLE", if_not_exists |-> TRUE, name |-> "code_elements",
        needs |-> {"vector"}],
       [create |-> "INDEX", if_not_exists |-> TRUE,
        name |-> "idx_code_elements_embedding", needs |-> {"code_elements"}] >>

\* the outcome of cur.execute(CREATE ...) on the schema state s
ExecuteCreate(stmt, s) ==
    IF stmt.name \in s
    THEN [status |-> IF stmt.if_not_exists THEN "ok" ELSE "error", schema |-> s]
    ELSE IF ~(stmt.needs \subseteq s) THEN [status |-> "error", schema |-> s]
    ELSE [status |-> "ok", schema |-> s \cup {stmt.name}]

RECURSIVE ExecuteAll(_, _)
\* the statements in order, up to the first that raises
ExecuteAll(stmts, s) ==
    IF Len(stmts) = 0 THEN [status |-> "ok", schema |-> s]
    ELSE LET out == ExecuteCreate(Head(stmts), s)
         IN  IF out.status = "error" THEN out ELSE ExecuteAll(Tail(stmts), out.schema)

\* VectorDB._ensure_schema on the schema state s
ensure_schema(s) == ExecuteAll(SchemaStatements, s)

FullSchema == {"vector", "code_elements", "idx_code_elements_embedding"}

\* the schema states a database can be in when a process starts: fresh, or
\* left by an earlier construction that got as far as each statement
SchemaStates == {{}, {"vector"}, {"vector", "code_elements"}, FullSchema}

(***************************************************************************)
(* The table configuration source.  files maps a path to None when no file *)
(* is there and to Some(document) otherwise; the document of an empty file *)
(* is None (what yaml.safe_load returns for it), that of a YAML mapping is *)
(* Some(mapping).  "app" is /app/tables.yaml, "skill" the tables.yaml of   *)
(* the skill directory, "custom" a path the caller passes.                 *)
(***************************************************************************)
EmptyConfig == [tables |-> <<>>]

Candidates_yaml == <<"app", "skill">>

\* yaml.safe_load(f) or {"tables": {}}
safe_load_or_empty(document) ==
    IF IsNone(document) THEN EmptyConfig
    ELSE IF DOMAIN Get(document) = {} THEN EmptyConfig
    ELSE Get(document)

\* load_table_config that opens the path without looking whether it exists
load_table_config_unchecked(config_path, files) ==
    LET existing == SelectSeq(Candidates_yaml, LAMBDA c : ~IsNone(files[c]))
        path == IF ~IsNone(config_path) THEN config_path
                ELSE IF Len(existing) > 0 THEN Some(existing[1])
                ELSE Some(Candidates_yaml[1])
    IN  IF IsNone(files[Get(path)]) THEN [raised |-> "FileNotFoundError"]
        ELSE safe_load_or_empty(Get(files[Get(path)]))

\* load_table_config(config_path) over the files
load_table_config(config_path, files) ==
    LET existing == SelectSeq(Candidates_yaml, LAMBDA c : ~IsNone(files[c]))
        path == IF ~IsNone(config_path) THEN config_path
                ELSE IF Len(existing) > 0 THEN Some(existing[1])
                ELSE None
    IN  IF IsNone(path) THEN EmptyConfig
        ELSE IF IsNone(files[Get(path)]) THEN EmptyConfig
        ELSE safe_load_or_empty(Get(files[Get(path)]))

\* config.get("tables", {})
get_tables(cfg) == IF "tables" \in DOMAIN cfg THEN cfg.tables ELSE <<>>

(***************************************************************************)
(* State.  db is the class of the store object the process constructed,    *)
(* conn its connection, config the loaded table configuration, rows the    *)
(* production table, code_elements the table of the code index, call the   *)
(* last method call on the open object: its arguments, how it ended, and   *)
(* the statements it submitted.  The tables outlive the process; a new process *)
(* constructs a new object over them.  fs holds the files of the table     *)
(* configuration, schema the objects of the code index database, proc the  *)
(* command-line process in progress (none when the object is used as a     *)
(* library): its command, its position and its locals.                     *)
(***************************************************************************)
RowPool ==
    { [content |-> "a", embedding |-> Some(E1),    confidence |-> 4, created_at |-> -1],
      [content |-> "c", embedding |-> Some(Diag),  confidence |-> 7, created_at |-> -100],
      [content |-> "d", embedding |-> Some(NegE1), confidence |-> 4, created_at |-> -200],
      [content |-> "e", embedding |-> Some(Zero),  confidence |-> 7, created_at |-> -1],
      [content |-> "f", embedding |-> None,        confidence |-> 7, created_at |-> -1] }

Stores == UNION {[1..n -> RowPool] : n \in 0..MaxRows}

TableNames == {"messages", "facts", "events", "notes", "unknown"}

QueryVectors == {E1, Zero, Short}

Limits == -1..MaxLimit

\* the (hours, min_confidence) pairs a caller passes
FilterArgs ==
    { <<None, None>>, <<Some(0), None>>, <<Some(24), None>>,
      <<None, Some(0)>>, <<None, Some(3)>>, <<Some(24), Some(3)>> }

ElementNames == {"f", "g"}

InsertVectors == {E1, Twice, Zero, Short}

NoCall ==
    [op |-> "none", args |-> <<>>, outcome |-> "none", error |-> "",
     available |-> {}, results |-> <<>>, executed |-> <<>>]

Raised(op, args, error, available, executed) ==
    [op |-> op, args |-> args, outcome |-> "raised", error |-> error,
     available |-> available, results |-> <<>>, executed |-> executed]

Returned(op, args, results, executed) ==
    [op |-> op, args |-> args, outcome |-> "returned", error |-> "",
     available |-> {}, results |-> results, executed |-> executed]

\* results.append((data, float(score))) for each fetched row
Shape(fetched) ==
    [k \in 1..Len(fetched) |->
        [rid |-> fetched[k].rid, data |-> fetched[k].data,
         score |-> fetched[k].similarity_score]]

\* a search that raises when the store returns no row
OutcomeNoRows(op, args, out, sent) ==
    IF out.status = "error"
    THEN Raised(op, args, "psycopg2.Error", {}, sent)
    ELSE IF Len(out.fetched) = 0
    THEN Raised(op, args, "LookupError", {}, sent)
    ELSE Returned(op, args, Shape(out.fetched), sent)

\* a search that submits its statement a second time when the store fails
OutcomeRetried(op, args, out, sent) ==
    IF out.status = "error"
    THEN Raised(op, args, "psycopg2.Error", {}, sent \o sent)
    ELSE Returned(op, args, Shape(out.fetched), sent)

\* how a search ends after cur.execute and cur.fetchall: the store's error
\* propagates, the fetched rows are shaped and returned
Outcome(op, args, out, sent) ==
    IF out.status = "error"
    THEN Raised(op, args, "psycopg2.Error", {}, sent)
    ELSE Returned(op, args, Shape(out.fetched), sent)

\* the files of an installed skill: tables.yaml in the skill directory
InstalledFs ==
    [path \in {"app", "skill", "custom"} |->
        IF path = "skill" THEN Some(Some(TablesYaml)) ELSE None]

NoProcess == [cmd |-> "none", pc |-> "none"]

InitSearch ==
    /\ db = "ConfigurableTableSearch"
    /\ conn = "open"
    /\ fs = InstalledFs
    /\ config = load_table_config(None, fs)
    /\ rows \in Stores
    /\ code_elements = <<>>
    /\ schema = FullSchema
    /\ call = NoCall
    /\ proc = NoProcess

InitVectorDB ==
    /\ db = "VectorDB"
    /\ conn = "open"
    /\ fs = InstalledFs
    /\ config = load_table_config(None, fs)
    /\ rows = <<>>
    /\ code_elements = <<>>
    /\ schema = FullSchema
    /\ call = NoCall
    /\ proc = NoProcess

Init == InitSearch \/ InitVectorDB

\* the ways ConfigurableTableSearch.search can end for an object whose
\* configuration is cfg, over the given table
search_outcomes(cfg, table, table_name, query_embedding, limit, hours, min_confidence) ==
    LET args == [table_name |-> table_name, query_embedding |-> query_embedding,
                 limit |-> limit, hours |-> hours, min_confidence |-> min_confidence]
        tables == get_tables(cfg)
    IN  IF table_name \notin DOMAIN tables
        THEN {Raised("search", args, "ValueError", Available(tables), <<>>)}
        ELSE LET stmt == compiled(tables[table_name], query_embedding, limit,
                                  hours, min_confidence)
             IN  {Outcome("search", args, out, <<stmt>>) :
                     out \in Execute(stmt.text, stmt.params, table)}

\* ConfigurableTableSearch.search; cmd_search_table constructs the object,
\* searches once and closes it
search(table_name, query_embedding, limit, hours, min_confidence) ==
    /\ proc.cmd = "none"
    /\ db = "ConfigurableTableSearch"
    /\ conn = "open"
    /\ call.op = "none"
    /\ call' \in search_outcomes(config, rows, table_name, query_embedding, limit,
                                 hours, min_confidence)
    /\ UNCHANGED <<db, conn, config, rows, code_elements, fs, schema, proc>>

\* VectorDB.search_similar; cmd_find constructs the object, searches once and
\* closes it
search_similar(query_embedding, limit) ==
    LET args == [query_embedding |-> query_embedding, limit |-> limit]
        stmt == similar(query_embedding, limit)
    IN  /\ db = "VectorDB"
        /\ conn = "open"
        /\ call.op = "none"
        /\ \E out \in Execute(stmt.text, stmt.params, code_elements) :
              call' = Outcome("search_similar", args, out, <<stmt>>)
        /\ UNCHANGED <<db, conn, config, rows, code_elements, fs, schema, proc>>

\* VectorDB.insert
insert(file_path, name, element_type, signature, docstring, embedding) ==
    LET args == [file_path |-> file_path, name |-> name, element_type |-> element_type,
                 signature |-> signature, docstring |-> docstring,
                 embedding |-> embedding]
        searchable_text == create_searchable_text(name, signature, docstring)
        ps   == <<file_path, name, element_type, signature, docstring,
                  searchable_text, Some(embedding)>>
        sent == <<[text |-> InsertText, params |-> ps]>>
        out  == ExecuteInsert(InsertText, ps, code_elements)
    IN  /\ db = "VectorDB"
        /\ conn = "open"
        /\ Len(code_elements) < MaxRows
        /\ code_elements' = out.table
        /\ call' = IF out.status = "error"
                   THEN Raised("insert", args, "psycopg2.Error", {}, sent)
                   ELSE Returned("insert", args, <<>>, sent)
        /\ UNCHANGED <<db, conn, config, rows, fs, schema, proc>>

\* VectorDB.clear_all
clear_all ==
    /\ db = "VectorDB"
    /\ conn = "open"
    /\ code_elements' = ExecuteDelete(ClearText, code_elements)
    /\ call' = Returned("clear_all", <<>>, <<>>, <<[text |-> ClearText, params |-> <<>>]>>)
    /\ UNCHANGED <<db, conn, config, rows, fs, schema, proc>>

\* VectorDB.close and ConfigurableTableSearch.close: the object is done with
close ==
    /\ proc.cmd = "none"
    /\ conn = "open"
    /\ conn' = "closed"
    /\ call' = NoCall
    /\ UNCHANGED <<db, config, rows, code_elements, fs, schema, proc>>

\* VectorDB.__init__ and ConfigurableTableSearch.__init__, in a new process
\* over the same tables: the one ensures the schema, the other loads the
\* table configuration
construct(config_path) ==
    /\ proc.cmd = "none"
    /\ conn = "closed"
    /\ conn' = "open"
    /\ IF db = "VectorDB"
       THEN /\ ensure_schema(schema).status = "ok"
            /\ schema' = ensure_schema(schema).schema
            /\ config' = config
       ELSE /\ config' = load_table_config(config_path, fs)
            /\ schema' = schema
    /\ UNCHANGED <<db, rows, code_elements, call, fs, proc>>

Next ==
    \/ \E t \in TableNames, q \in QueryVectors, l \in Limits, f \in FilterArgs :
          search(t, q, l, f[1], f[2])
    \/ \E q \in QueryVectors, l \in Limits : search_similar(q, l)
    \/ \E n \in ElementNames, e \in InsertVectors :
          insert("a.py", n, "function", "sig", "doc", e)
    \/ clear_all
    \/ close
    \/ construct(None)

Spec == Init /\ [][Next]_vars

(***************************************************************************)
(* cmd_index: one `index` run of the command line.  find_python_files and  *)
(* extract_code_elements yield the files and their units; each unit comes  *)
(* with what the embedding provider answers for its searchable text: a     *)
(* vector, or nothing when the provider fails.  The run starts in a new    *)
(* process over a database in any schema state.                            *)
(***************************************************************************)
\* largest number of files of a run
MaxFiles == 2

\* a unit the provider embeds, and a unit it fails for
UnitEmbedded ==
    [file_path |-> "a.py", element_name |-> "f", element_type |-> "function",
     signature |-> "sig", docstring |-> "doc", provider |-> Some(E1)]

UnitFailed ==
    [file_path |-> "a.py", element_name |-> "g", element_type |-> "function",
     signature |-> "sig", docstring |-> "", provider |-> None]

\* the units of a file: none, one, or two with a failure before or after
FileUnits ==
    { <<>>, <<UnitEmbedded>>, <<UnitFailed>>,
      <<UnitFailed, UnitEmbedded>>, <<UnitEmbedded, UnitFailed>> }

Corpora == UNION {[1..n -> FileUnits] : n \in 0..MaxFiles}

\* embeddings.generate_embedding: the provider's vector, None when it fails
generate_embedding(element) == element.provider

\* the parameters VectorDB.insert binds for an element and its embedding
InsertParams(element, embedding) ==
    <<element.file_path, element.element_name, element.element_type,
      element.signature, element.docstring,
      create_searchable_text(element.element_name, element.signature,
                             element.docstring),
      embedding>>

\* a record an earlier run left in the index
OldRow ==
    ExecuteInsert(InsertText,
                  InsertParams([file_path |-> "old.py", element_name |-> "h",
                                element_type |-> "class", signature |-> "",
                                docstring |-> "doc"], Some(Diag)),
                  <<>>).table[1]

IndexStores == {<<>>, <<OldRow>>}

\* `if embedding:` of cmd_index
Truthy(embedding) == ~IsNone(embedding) /\ Len(Get(embedding)) > 0

\* the loop body that ends the run at the first unit without an embedding
index_unit_abort(p, table) ==
    LET element   == p.python_files[p.file][p.unit]
        embedding == generate_embedding(element)
        out       == ExecuteInsert(InsertText, InsertParams(element, embedding), table)
    IN  IF Truthy(embedding) /\ out.status = "ok"
        THEN [proc |-> [p EXCEPT !.unit = @ + 1, !.total_elements = @ + 1],
              table |-> out.table]
        ELSE [proc |-> [p EXCEPT !.pc = "raised"], table |-> table]

\* the body of the inner loop of cmd_index for the unit the run is at: the
\* new locals and the new table
index_unit(p, table) ==
    LET element   == p.python_files[p.file][p.unit]
        embedding == generate_embedding(element)
    IN  IF Truthy(embedding)
        THEN LET out == ExecuteInsert(InsertText, InsertParams(element, embedding),
                                      table)
             IN  IF out.status = "error"
                 THEN [proc |-> [p EXCEPT !.pc = "raised"], table |-> table]
                 ELSE [proc |-> [p EXCEPT !.unit = @ + 1, !.total_elements = @ + 1],
                       table |-> out.table]
        ELSE [proc |-> [p EXCEPT !.unit = @ + 1], table |-> table]

\* the last line cmd_index prints: its two numbers
index_report(p) ==
    [indexed |-> p.total_elements, files |-> Len(p.python_files)]

InitIndex ==
    /\ db = "VectorDB"
    /\ conn = "closed"
    /\ fs = InstalledFs
    /\ config = load_table_config(None, fs)
    /\ rows = <<>>
    /\ schema \in SchemaStates
    /\ code_elements \in (IF "code_elements" \in schema THEN IndexStores ELSE {<<>>})
    /\ call = NoCall
    /\ \E clear \in BOOLEAN, python_files \in Corpora :
          proc = [cmd |-> "index", pc |-> "start", clear |-> clear,
                  python_files |-> python_files, file |-> 1, unit |-> 1,
                  total_elements |-> 0, report |-> None,
                  before |-> [schema |-> schema, code_elements |-> code_elements]]

\* db = VectorDB(): connect and _ensure_schema
cmd_index_start ==
    /\ proc.cmd = "index"
    /\ proc.pc = "start"
    /\ LET out == ensure_schema(schema)
       IN  /\ schema' = out.schema
           /\ IF out.status = "error"
              THEN /\ conn' = conn
                   /\ proc' = [proc EXCEPT !.pc = "raised"]
              ELSE /\ conn' = "open"
                   /\ proc' = [proc EXCEPT !.pc = IF proc.clear THEN "clear" ELSE "loop"]
    /\ UNCHANGED <<db, config, rows, code_elements, call, fs>>

\* if args.clear: db.clear_all()
cmd_index_clear ==
    /\ proc.cmd = "index"
    /\ proc.pc = "clear"
    /\ code_elements' = ExecuteDelete(ClearText, code_elements)
    /\ proc' = [proc EXCEPT !.pc = "loop"]
    /\ UNCHANGED <<db, conn, config, rows, call, fs, schema>>

\* one step of the two loops: the next unit of the file, or the next file
cmd_index_loop ==
    /\ proc.cmd = "index"
    /\ proc.pc = "loop"
    /\ proc.file <= Len(proc.python_files)
    /\ IF proc.unit > Len(proc.python_files[proc.file])
       THEN /\ proc' = [proc EXCEPT !.file = @ + 1, !.unit = 1]
            /\ code_elements' = code_elements
       ELSE /\ proc' = index_unit(proc, code_elements).proc
            /\ code_elements' = index_unit(proc, code_elements).table
    /\ UNCHANGED <<db, conn, config, rows, call, fs, schema>>

\* after the loops: the report and db.close()
cmd_index_end ==
    /\ proc.cmd = "index"
    /\ proc.pc = "loop"
    /\ proc.file > Len(proc.python_files)
    /\ proc' = [proc EXCEPT !.pc = "done", !.report = Some(index_report(proc))]
    /\ conn' = "closed"
    /\ UNCHANGED <<db, config, rows, code_elements, call, fs, schema>>

NextIndex ==
    \/ cmd_index_start
    \/ cmd_index_clear
    \/ cmd_index_loop
    \/ cmd_index_end

SpecIndex == InitIndex /\ [][NextIndex]_vars

\* the process runs on as long as it has a step to take
FairSpecIndex == SpecIndex /\ WF_vars(NextIndex)

(***************************************************************************)
(* The table commands of the command line, and the engine used as a        *)
(* library, over configuration files that are missing, empty or hold a     *)
(* mapping, and that an edit or a deployment may replace at any time.      *)
(* main registers one find-<table> command per configured table, then      *)
(* dispatches; cmd_search_table checks the table, constructs the engine,   *)
(* searches and closes.  loads counts the calls of load_table_config the   *)
(* process has made; registered, checked and config are the mappings the   *)
(* three uses saw.                                                         *)
(***************************************************************************)
\* a tables.yaml that configures the notes table only
NotesYaml == [tables |-> [n \in {"notes"} |-> TablesYaml.tables[n]]]

\* what a path can hold: no file, an empty file, a mapping
FileContents == {None, Some(None), Some(Some(TablesYaml)), Some(Some(NotesYaml))}

FileSystems == [{"app", "skill", "custom"} -> FileContents]

\* the config_path a caller passes to ConfigurableTableSearch
ConfigPaths == {None, Some("custom")}

ConfigStores == {<<>>, <<CHOOSE r \in RowPool : r.content = "a">>}

\* the command lines: list-tables, or find-<table> for a table name
Commands == {[cmd |-> "list-tables", table_name |-> ""]}
            \cup {[cmd |-> "find", table_name |-> t] : t \in TableNames}

InitConfig ==
    /\ db = "ConfigurableTableSearch"
    /\ conn = "closed"
    /\ fs \in FileSystems
    /\ config = EmptyConfig
    /\ rows \in ConfigStores
    /\ code_elements = <<>>
    /\ schema = FullSchema
    /\ call = NoCall
    /\ proc = NoProcess

\* main: the configuration is loaded to register the find-<table> commands,
\* and argparse accepts the command line if it names a registered command
\* argparse defaults of find-<table>: filters.get("default_hours", 168)
CliDefaultHours == 168

\* filters.get("default_min_confidence", 0.6), in tenths
CliDefaultMinConfidence == 6

\* the defaults cmd_list_tables prints
ListedDefaultHours == 168

ListedDefaultMinConfidence == 0

\* the value of args.hours: no such attribute (None) when the table has no
\* time_column, else the option or the default of the parser
parsed_hours(tc, option) ==
    IF IsNone(tc.filters.time_column) THEN None
    ELSE IF ~IsNone(option) THEN option
    ELSE IF ~IsNone(tc.filters.default_hours) THEN tc.filters.default_hours
    ELSE Some(CliDefaultHours)

\* the value of args.confidence
parsed_confidence(tc, option) ==
    IF IsNone(tc.filters.confidence_column) THEN None
    ELSE IF ~IsNone(option) THEN option
    ELSE IF ~IsNone(tc.filters.default_min_confidence)
         THEN tc.filters.default_min_confidence
    ELSE Some(CliDefaultMinConfidence)

\* the defaults cmd_list_tables shows for a table; None where it shows none
listed_defaults(tc) ==
    [hours |->
        IF IsNone(tc.filters.time_column) THEN None
        ELSE IF ~IsNone(tc.filters.default_hours) THEN tc.filters.default_hours
        ELSE Some(ListedDefaultHours),
     confidence |->
        IF IsNone(tc.filters.confidence_column) THEN None
        ELSE IF ~IsNone(tc.filters.default_min_confidence)
             THEN tc.filters.default_min_confidence
        ELSE Some(ListedDefaultMinConfidence)]

main(command) ==
    LET tables == get_tables(load_table_config(None, fs))
        known  == command.cmd = "list-tables" \/ command.table_name \in DOMAIN tables
    IN  /\ proc.cmd = "none"
        /\ conn = "closed"
        /\ proc' = [cmd |-> command.cmd, table_name |-> command.table_name,
                    pc |-> IF known THEN "dispatch" ELSE "done",
                    loads |-> 1, registered |-> tables, checked |-> None,
                    listed |-> None, options |-> None]
        /\ UNCHANGED <<db, conn, config, rows, code_elements, call, fs, schema>>

\* cmd_list_tables: loads the configuration and lists its tables
cmd_list_tables ==
    /\ proc.cmd = "list-tables"
    /\ proc.pc = "dispatch"
    /\ LET tables == get_tables(load_table_config(None, fs))
       IN  proc' = [proc EXCEPT
                      !.pc = "done", !.loads = @ + 1,
                      !.checked = Some(tables),
                      !.listed = Some([t \in DOMAIN tables |->
                                          listed_defaults(tables[t])])]
    /\ UNCHANGED <<db, conn, config, rows, code_elements, call, fs, schema>>

\* cmd_search_table up to the embedding of the query: loads the
\* configuration, returns when the table is not in it or when no embedding
\* comes back
cmd_search_table ==
    LET tables == get_tables(load_table_config(None, fs))
    IN  /\ proc.cmd = "find"
        /\ proc.pc = "dispatch"
        /\ \E embedded \in BOOLEAN :
              proc' = [proc EXCEPT
                          !.pc = IF proc.table_name \in DOMAIN tables /\ embedded
                                 THEN "construct" ELSE "done",
                          !.loads = @ + 1,
                          !.checked = Some(tables)]
        /\ UNCHANGED <<db, conn, config, rows, code_elements, call, fs, schema>>

\* db = ConfigurableTableSearch(): loads the configuration and connects
cmd_search_table_construct ==
    /\ proc.cmd = "find"
    /\ proc.pc = "construct"
    /\ conn' = "open"
    /\ config' = load_table_config(None, fs)
    /\ proc' = [proc EXCEPT !.pc = "search", !.loads = @ + 1]
    /\ UNCHANGED <<db, rows, code_elements, call, fs, schema>>

\* db.search(table_name, query_embedding, ...): an error ends the process
cmd_search_table_search ==
    /\ proc.cmd = "find"
    /\ proc.pc = "search"
    /\ \E f \in {<<None, None>>, <<Some(24), Some(3)>>} :
          LET tc == proc.registered[proc.table_name]
          IN  /\ call' \in search_outcomes(config, rows, proc.table_name, E1, 1,
                                           parsed_hours(tc, f[1]),
                                           parsed_confidence(tc, f[2]))
              /\ proc' = [proc EXCEPT
                            !.pc = IF call'.outcome = "raised" THEN "raised"
                                   ELSE "searched",
                            !.options = Some([hours |-> f[1], confidence |-> f[2]])]
    /\ UNCHANGED <<db, conn, config, rows, code_elements, fs, schema>>

\* the results are printed and db.close() is called
cmd_search_table_close ==
    /\ proc.cmd = "find"
    /\ proc.pc = "searched"
    /\ conn' = "closed"
    /\ proc' = [proc EXCEPT !.pc = "done"]
    /\ UNCHANGED <<db, config, rows, code_elements, call, fs, schema>>

\* the process ends; its connection goes with it
exit ==
    /\ proc.pc \in {"done", "raised"}
    /\ proc' = NoProcess
    /\ conn' = "closed"
    /\ call' = NoCall
    /\ UNCHANGED <<db, config, rows, code_elements, fs, schema>>

\* a file of the configuration is written, emptied or removed from outside
edit_source ==
    /\ \E path \in DOMAIN fs, content \in FileContents :
          /\ fs[path] # content
          /\ fs' = [fs EXCEPT ![path] = content]
    /\ UNCHANGED <<db, conn, config, rows, code_elements, call, schema, proc>>

NextConfig ==
    \/ \E config_path \in ConfigPaths : construct(config_path)
    \/ \E t \in TableNames, l \in {0, 1}, f \in {<<None, None>>, <<Some(24), Some(3)>>} :
          search(t, E1, l, f[1], f[2])
    \/ close
    \/ \E command \in Commands : main(command)
    \/ cmd_list_tables
    \/ cmd_search_table
    \/ cmd_search_table_construct
    \/ cmd_search_table_search
    \/ cmd_search_table_close
    \/ exit
    \/ edit_source

SpecConfig == InitConfig /\ [][NextConfig]_vars

(***************************************************************************)
(* Properties.                                                             *)
(***************************************************************************)
\* the last call is a search of a configured table
ConfiguredSearch ==
    call.op = "search" /\ call.args.table_name \in DOMAIN config.tables

\* the last call is a search or a search_similar that reached the store
StoreSearch == ConfiguredSearch \/ call.op = "search_similar"

\* the table the last search read
SearchedTable == IF call.op = "search" THEN rows ELSE code_elements

\* C1: a search of a table name that is not a key of the configuration fails
\* with the unknown-table error, the error lists the configured names, and no
\* statement is submitted to the store, whatever the other arguments are.
C1_UnknownTableFails ==
    (call.op = "search" /\ call.args.table_name \notin DOMAIN config.tables)
    => /\ call.outcome = "raised"
       /\ call.error = "ValueError"
       /\ call.available = DOMAIN config.tables
       /\ call.executed = <<>>

C1_Witness ==
    /\ call.op = "search"
    /\ call.args.table_name = "unknown"
    /\ call.args.query_embedding = Short
    /\ call.args.limit = -1
    /\ Len(rows) = MaxRows
    /\ call.outcome = "raised"

\* C2: a search with limit 0 or a negative limit fails, and it fails before
\* any statement is submitted to the store.
C2_InvalidLimitBeforeQuery ==
    (StoreSearch /\ call.args.limit <= 0)
    => /\ call.outcome = "raised"
       /\ call.executed = <<>>

\* C3: the statement text of a search depends on the table configuration
\* alone (it is the text compiled for any other runtime values), every
\* runtime value is handed over as a bound parameter, and no placeholder
\* stands inside a quoted literal.
C3_ValuesOnlyBound ==
    ConfiguredSearch =>
        \A k \in 1..Len(call.executed) :
            LET stmt == call.executed[k]
                tc   == config.tables[call.args.table_name]
            IN  /\ stmt.text = compiled(tc, Zero, 1, None, None).text
                /\ Cardinality(Placeholders(stmt.text)) = Len(stmt.params)
                /\ \A p \in Placeholders(stmt.text) : ~InQuotedLiteral(stmt.text, p)

\* C4: a search that returns, returns at most limit results.
C4_AtMostLimit ==
    (StoreSearch /\ call.outcome = "returned")
    => Len(call.results) <= call.args.limit

C4_Witness ==
    /\ ConfiguredSearch
    /\ call.args.table_name = "notes"
    /\ call.outcome = "returned"
    /\ call.args.limit = 1
    /\ Len(call.results) = 1
    /\ Len(rows) = 2
    /\ \A i \in 1..Len(rows) : ~IsNone(rows[i].embedding)

\* the rows the predicate of the last search keeps: a non-null embedding,
\* and for a configured table its time and confidence bounds
Qualifies(row) ==
    /\ ~IsNone(row.embedding)
    /\ call.op = "search" =>
          LET tc == config.tables[call.args.table_name]
          IN  /\ ~IsNone(tc.filters.time_column) =>
                    row.created_at >= 0 - effective_hours(tc, call.args.hours)
              /\ ~IsNone(tc.filters.confidence_column) =>
                    row.confidence >= effective_conf(tc, call.args.min_confidence)

\* 1 - cosine distance between the embedding of row i and the query vector
ScoreOf(i) == Cosine(Get(SearchedTable[i].embedding), call.args.query_embedding)

Returned_rids == {call.results[k].rid : k \in 1..Len(call.results)}

\* the qualifying rows the last search did not return
LeftOut == {i \in 1..Len(SearchedTable) : Qualifies(SearchedTable[i])} \ Returned_rids

\* no row left out by the limit has a strictly higher score than a returned one
NoneBetterLeftOut ==
    \A i \in LeftOut : \A k \in 1..Len(call.results) :
        ~ScoreLess(call.results[k].score, ScoreOf(i))

BoundOn(stmt, column) ==
    LET i == CHOOSE c \in CondStarts(stmt.text) :
                 /\ stmt.text[CondOp(stmt.text, c) - 1] = column
                 /\ CondPlaceholder(stmt.text, c) # 0
    IN  Num(ParamAt(stmt.text, stmt.params, CondPlaceholder(stmt.text, i)))

SupplyOr(arg, default) == IF IsNone(arg) THEN default ELSE Get(arg)

\* C6: the bound of each configured filter is the caller's value when one is
\* supplied (0 included) and the configured default otherwise; with
\* default_min_confidence 0.6 a record of confidence 0.4 is left out when
\* min_confidence is omitted and returned when the caller passes 0.3.
C6_ExplicitElseDefault ==
    ConfiguredSearch =>
        LET tc == config.tables[call.args.table_name]
            f  == tc.filters
        IN  /\ \A k \in 1..Len(call.executed) :
                  /\ (~IsNone(f.time_column) /\ ~IsNone(f.default_hours)) =>
                        BoundOn(call.executed[k], Get(f.time_column))
                            = SupplyOr(call.args.hours, Get(f.default_hours))
                  /\ (~IsNone(f.confidence_column) /\ ~IsNone(f.default_min_confidence)) =>
                        BoundOn(call.executed[k], Get(f.confidence_column))
                            = SupplyOr(call.args.min_confidence,
                                       Get(f.default_min_confidence))
                  /\ (~IsNone(f.time_column) /\ ~IsNone(call.args.hours)) =>
                        BoundOn(call.executed[k], Get(f.time_column))
                            = Get(call.args.hours)
                  /\ (~IsNone(f.confidence_column) /\ ~IsNone(call.args.min_confidence)) =>
                        BoundOn(call.executed[k], Get(f.confidence_column))
                            = Get(call.args.min_confidence)
            /\ (call.args.table_name = "facts" /\ call.outcome = "returned") =>
                  \A i \in 1..Len(rows) :
                      rows[i].confidence = 4 =>
                          /\ IsNone(call.args.min_confidence) => i \notin Returned_rids
                          /\ ( /\ call.args.min_confidence = Some(3)
                               /\ ~IsNone(rows[i].embedding)
                               /\ call.args.limit >= Len(rows) )
                             => i \in Returned_rids

C6_Witness ==
    /\ ConfiguredSearch
    /\ call.args.table_name = "facts"
    /\ call.args.min_confidence = Some(3)
    /\ call.outcome = "returned"
    /\ \E i \in Returned_rids : rows[i].confidence = 4

\* C7: a search with a positive limit of a table that holds no row returns
\* the empty sequence, and raises nothing.
C7_EmptyStoreEmptyResult ==
    (StoreSearch /\ call.args.limit >= 1 /\ SearchedTable = <<>>)
    => /\ call.outcome = "returned"
       /\ call.results = <<>>

C7_Witness ==
    /\ ConfiguredSearch
    /\ call.args.table_name = "events"
    /\ call.args.query_embedding = Short
    /\ call.args.limit >= 1
    /\ rows = <<>>
    /\ call.outcome = "returned"

\* the record inserted last: the last row of code_elements
LastInserted == Len(code_elements)

\* the last call searched the code index with the embedding of the record
\* inserted last, a non-degenerate vector, and a limit of at least 1
RoundTrip ==
    /\ call.op = "search_similar"
    /\ call.args.limit >= 1
    /\ LastInserted >= 1
    /\ code_elements[LastInserted].embedding = Some(call.args.query_embedding)
    /\ ~IsDegenerate(call.args.query_embedding)

\* the stored records whose score against the query vector is 1.0
TopTied == {i \in 1..Len(code_elements) : IsOne(ScoreOf(i))}

\* C8 as claimed: after the insert of a record with a non-degenerate embedding
\* v, a search with v and limit >= 1 returns that record, first or tied with
\* the first, with score 1.0.
C8_RoundTripReturnsRecord ==
    RoundTrip =>
        /\ call.outcome = "returned"
        /\ \E k \in 1..Len(call.results) :
              /\ call.results[k].rid = LastInserted
              /\ IsOne(call.results[k].score)
              /\ call.results[k].score = call.results[1].score

\* C8 as amended: the search returns a first result of score 1.0, every
\* returned occurrence of the record has score 1.0, and the record itself is
\* returned whenever at most limit stored records have score 1.0.
C8_RoundTripTopScore ==
    RoundTrip =>
        /\ call.outcome = "returned"
        /\ Len(call.results) >= 1
        /\ IsOne(call.results[1].score)
        /\ \A k \in 1..Len(call.results) :
              call.results[k].rid = LastInserted => IsOne(call.results[k].score)
        /\ Cardinality(TopTied) <= call.args.limit => LastInserted \in Returned_rids

C8_Witness ==
    /\ RoundTrip
    /\ Len(code_elements) = 2
    /\ code_elements[1].embedding # code_elements[2].embedding
    /\ call.outcome = "returned"
    /\ call.results[1].rid = LastInserted

\* C9: a search whose query vector has another dimension than the store's
\* fails, and no statement is submitted to the store for it.
C9_DimensionMismatchBeforeQuery ==
    (StoreSearch /\ Len(call.args.query_embedding) # Dim)
    => /\ call.outcome = "raised"
       /\ call.executed = <<>>

\* the row insert stores for its arguments
InsertedRow(a) ==
    [file_path |-> a.file_path, element_name |-> a.name,
     element_type |-> a.element_type, signature |-> a.signature,
     docstring |-> a.docstring,
     searchable_text |-> create_searchable_text(a.name, a.signature, a.docstring),
     embedding |-> Some(a.embedding)]

RECURSIVE Flatten(_)
\* the units of the files of a run, in the order the run takes them
Flatten(files) == IF Len(files) = 0 THEN <<>> ELSE Head(files) \o Flatten(Tail(files))

\* the record the run inserts for a unit whose embedding succeeded
UnitRow(element) ==
    [file_path |-> element.file_path, element_name |-> element.element_name,
     element_type |-> element.element_type, signature |-> element.signature,
     docstring |-> element.docstring,
     searchable_text |-> create_searchable_text(element.element_name,
                                                element.signature, element.docstring),
     embedding |-> element.provider]

\* the units of the run whose embedding succeeded, and their records
Succeeded == SelectSeq(Flatten(proc.python_files), LAMBDA u : ~IsNone(u.provider))

SucceededRows == [k \in 1..Len(Succeeded) |-> UnitRow(Succeeded[k])]

\* what the store held when the loops of the run began
IndexBase == IF proc.clear THEN <<>> ELSE proc.before.code_elements

\* C11: an index run always reaches its end, whatever units the embedding
\* provider fails for, and at its end the store holds, after what it held
\* when the loops began, exactly one new record for each unit whose embedding
\* succeeded, and none for a unit whose embedding failed.
C11_RunReachesEnd ==
    /\ <>(proc.pc = "done")
    /\ [](proc.pc = "done" =>
            /\ code_elements = IndexBase \o SucceededRows
            /\ Len(code_elements) = Len(IndexBase) + Len(Succeeded))

C11_Witness ==
    /\ proc.cmd = "index"
    /\ proc.pc = "done"
    /\ Len(proc.python_files) = 2
    /\ Len(proc.python_files[1]) = 2
    /\ IsNone(proc.python_files[1][1].provider)
    /\ ~IsNone(proc.python_files[1][2].provider)
    /\ Len(proc.python_files[2]) = 2
    /\ ~IsNone(proc.python_files[2][1].provider)
    /\ IsNone(proc.python_files[2][2].provider)
    /\ ~proc.clear
    /\ Len(proc.before.code_elements) = 1
    /\ Len(code_elements) = Len(proc.before.code_elements) + 2

\* the units the run went through
Processed == Flatten(proc.python_files)

\* C12: at the end of an index run the report states the number of units
\* whose embedding failed: one of the numbers it reports is the number of
\* units processed minus the number of units inserted.
C12_FailuresReported ==
    (proc.cmd = "index" /\ proc.pc = "done") =>
        LET report == Get(proc.report)
        IN  \E k \in DOMAIN report :
               report[k] = Len(Processed) - proc.total_elements

\* the file load_table_config opens for a path argument: None when no path is
\* given and no candidate exists, or when the path does not exist
SourceOf(config_path, files) ==
    LET existing == SelectSeq(Candidates_yaml, LAMBDA c : ~IsNone(files[c]))
    IN  IF ~IsNone(config_path) THEN files[Get(config_path)]
        ELSE IF Len(existing) > 0 THEN files[existing[1]]
        ELSE None

\* the source is missing, or it is an empty file
MissingOrEmpty(config_path, files) ==
    \/ IsNone(SourceOf(config_path, files))
    \/ IsNone(Get(SourceOf(config_path, files)))

\* every search on an object of the given configuration ends with the
\* unknown-table error, and submits nothing
AllSearchesUnknownTable(cfg) ==
    \A t \in TableNames, q \in QueryVectors, l \in Limits, f \in FilterArgs :
        \A c \in search_outcomes(cfg, rows, t, q, l, f[1], f[2]) :
            /\ c.outcome = "raised"
            /\ c.error = "ValueError"
            /\ c.executed = <<>>

\* C13: constructing the engine over a missing source (no path given and no
\* candidate file, or a given path that does not exist) or an empty source
\* succeeds with the empty table mapping, and every search on an object with
\* that mapping fails with the unknown-table error.
C13_MissingSourceEmptyMapping ==
    /\ [][\A config_path \in ConfigPaths :
            (construct(config_path) /\ MissingOrEmpty(config_path, fs)) =>
                /\ config' = EmptyConfig
                /\ AllSearchesUnknownTable(config')]_vars
    /\ []((proc.cmd = "none" /\ config = EmptyConfig /\ call.op = "search") =>
            /\ call.outcome = "raised"
            /\ call.error = "ValueError"
            /\ call.executed = <<>>)

C13_Witness ==
    /\ proc.cmd = "none"
    /\ conn = "open"
    /\ IsNone(fs["app"])
    /\ IsNone(fs["skill"])
    /\ IsNone(fs["custom"])
    /\ config = EmptyConfig
    /\ call.op = "search"
    /\ call.args.table_name = "messages"
    /\ call.error = "ValueError"
    /\ Len(rows) = 1

\* C14: the schema initialization that every VectorDB construction runs
\* succeeds from every schema state, running it again on the state it leaves
\* succeeds and changes nothing, and it leaves the stored records unchanged.
C14_EnsureSchemaIdempotent ==
    [][cmd_index_start =>
          LET once  == ensure_schema(schema)
              twice == ensure_schema(once.schema)
          IN  /\ once.status = "ok"
              /\ schema' = once.schema
              /\ twice.status = "ok"
              /\ twice.schema = once.schema
              /\ code_elements' = code_elements]_vars

C14_Witness ==
    /\ proc.cmd = "index"
    /\ proc.pc = "loop"
    /\ proc.file = 1
    /\ proc.unit = 1
    /\ proc.before.schema = {"vector", "code_elements"}
    /\ schema = FullSchema
    /\ Len(proc.before.code_elements) = 1
    /\ code_elements = proc.before.code_elements

\* every search of the given table with a limit of at least 1 returns the
\* empty sequence
AllSearchesEmpty(table) ==
    \A q \in QueryVectors, l \in 1..MaxLimit :
        \A out \in Execute(similar(q, l).text, similar(q, l).params, table) :
            /\ out.status = "ok"
            /\ Shape(out.fetched) = <<>>

\* C15: whatever the store held, after clear_all the record count is 0 and
\* every search returns the empty sequence; and at the end of an
\* `index --clear` run the store holds exactly the records that run inserted.
C15_ClearEmptiesIndex ==
    /\ [][cmd_index_clear =>
            /\ Len(code_elements') = 0
            /\ AllSearchesEmpty(code_elements')]_vars
    /\ []((proc.cmd = "index" /\ proc.pc = "done" /\ proc.clear) =>
            code_elements = SucceededRows)

C15_Witness ==
    /\ proc.cmd = "index"
    /\ proc.pc = "done"
    /\ proc.clear
    /\ Len(proc.before.code_elements) = 1
    /\ Len(code_elements) = 2
    /\ code_elements = SucceededRows

\* the mappings the uses of the configuration in the process have seen so
\* far: command registration, the table check of the command, the engine
UsesSeen ==
    {proc.registered}
    \cup (IF IsNone(proc.checked) THEN {} ELSE {Get(proc.checked)})
    \cup (IF proc.pc \in {"search", "searched", "raised"} THEN {get_tables(config)}
          ELSE {})

\* C16: in a command-line process the configuration source is read exactly
\* once (never a second time), and every use in the process sees one and the
\* same mapping.
C16_LoadedOncePerProcess ==
    proc.cmd \in {"find", "list-tables"} =>
        /\ proc.loads = 1
        /\ Cardinality(UsesSeen) = 1

\* the store fails to execute the statement the last search submitted
ExecutionFails ==
    /\ StoreSearch
    /\ Len(call.executed) >= 1
    /\ Execute(call.executed[1].text, call.executed[1].params, SearchedTable)
           = {StoreError}

\* C17: when the store fails to execute the compiled statement, search fails
\* with QueryExecutionError (the error that carries the parameterized
\* statement).
C17_QueryExecutionError ==
    (ConfiguredSearch /\ ExecutionFails) =>
        /\ call.outcome = "raised"
        /\ call.error = "QueryExecutionError"

\* C18: one search call submits its statement to the store at most once, and
\* when the execution fails the call has submitted it exactly once, raises,
\* and returns no result.
C18_NoRetry ==
    call.op \in {"search", "search_similar"} =>
        /\ Len(call.executed) <= 1
        /\ ExecutionFails =>
              /\ Len(call.executed) = 1
              /\ call.outcome = "raised"
              /\ call.results = <<>>

C18_Witness ==
    /\ call.op = "search"
    /\ call.args.table_name = "events"
    /\ call.args.query_embedding = Short
    /\ call.args.limit = MaxLimit
    /\ Len(rows) = MaxRows
    /\ ExecutionFails
    /\ Len(call.executed) = 1
    /\ call.outcome = "raised"

\* the scores 1.0 and -1.0
ScoreOne == [num |-> 1, den |-> 1]

ScoreMinusOne == [num |-> -1, den |-> 1]

\* C19 as claimed: every returned result has the score 1 - cosine distance
\* between its record's embedding and the query vector, and that score is in
\* the half-open range (-1.0, 1.0].
C19_ScoreHalfOpen ==
    (StoreSearch /\ call.outcome = "returned") =>
        \A k \in 1..Len(call.results) :
            LET s == call.results[k].score
            IN  /\ s = ScoreOf(call.results[k].rid)
                /\ ScoreLess(ScoreMinusOne, s)
                /\ ScoreGeq(ScoreOne, s)

\* C19 as amended: the score is 1 - cosine distance, and it is either in the
\* closed range [-1.0, 1.0] or NaN (a zero-norm embedding or query vector).
C19_ScoreClosedOrNaN ==
    (StoreSearch /\ call.outcome = "returned") =>
        \A k \in 1..Len(call.results) :
            LET s == call.results[k].score
            IN  /\ s = ScoreOf(call.results[k].rid)
                /\ \/ IsNaN(s)
                   \/ /\ ScoreGeq(s, ScoreMinusOne)
                      /\ ScoreGeq(ScoreOne, s)

C19_Witness ==
    /\ ConfiguredSearch
    /\ call.outcome = "returned"
    /\ Len(call.results) = 2
    /\ IsOne(call.results[1].score)
    /\ call.results[2].score = ScoreMinusOne

\* ---------------------------------------------------------------------
\* push_to_staging.py: one run of the script that posts cached prompts
\* to a Langfuse server
\* ---------------------------------------------------------------------

\* the longest command line (sys.argv[1:]) of a run
MaxArgs == 3

\* the words a command line is made of
ArgWords == {"p1", "--production", "-m", "-h"}

CommandLines == UNION {[1..n -> ArgWords] : n \in 0..MaxArgs}

\* str.lower on the characters and words the inputs are made of
LowerCase(c) ==
    CASE c = "Y" -> "y"
      [] c = "E" -> "e"
      [] c = "S" -> "s"
      [] c = "N" -> "n"
      [] c = "O" -> "o"
      [] c = "STAGING" -> "staging"
      [] c = "PROD" -> "prod"
      [] OTHER -> c

lower(text) == [i \in 1..Len(text) |-> LowerCase(text[i])]

Whitespace == {" ", "\t"}

RECURSIVE lstrip(_)
lstrip(text) ==
    IF Len(text) > 0 /\ Head(text) \in Whitespace
    THEN lstrip(Tail(text))
    ELSE text

RECURSIVE rstrip(_)
rstrip(text) ==
    IF Len(text) > 0 /\ text[Len(text)] \in Whitespace
    THEN rstrip(SubSeq(text, 1, Len(text) - 1))
    ELSE text

\* str.strip
strip(text) == rstrip(lstrip(text))

Yes == <<"y", "e", "s">>

\* what is typed at the confirmation prompt, character by character; None
\* is the end of input
Answers ==
    { Some(Yes), Some(<<"Y", "E", "S">>), Some(<<" ", "y", "e", "s", " ">>),
      Some(<<"y">>), Some(<<"n", "o">>), Some(<<>>), None }

\* a confirmation that takes every answer but "no"
confirmed_unless_no(answer) == strip(lower(answer)) # <<"n", "o">>

\* response = input(...).strip().lower(); response == "yes"
confirmed(answer) == lower(strip(answer)) = Yes

\* a text is a sequence of parts, and "pattern in text" is the presence of
\* the part
Contains(text, part) == \E i \in 1..Len(text) : text[i] = part

startswith(text, prefix) == Len(text) > 0 /\ text[1] = prefix

placeholder_patterns ==
    { "your-key-here", "your-public-key", "your-secret-key",
      "your-staging-public-key", "your-staging-secret-key",
      "your-prod-public-key", "your-prod-secret-key", "your-instance.com" }

\* the three variables of one environment; an unset variable is ""
Unset == [public_key |-> <<>>, secret_key |-> <<>>, host |-> <<>>]

StagingCredentials ==
    [public_key |-> <<"pk-lf-", "s1">>, secret_key |-> <<"sk-lf-", "s2">>,
     host |-> <<"https://langfuse.", "staging", ".example.com">>]

ProductionCredentials ==
    [public_key |-> <<"pk-lf-", "p1">>, secret_key |-> <<"sk-lf-", "p2">>,
     host |-> <<"https://langfuse.", "prod", ".example.com">>]

\* what the *_STAGING variables may hold: the staging server's values, no
\* value, the placeholders of the example file, an upper-case host, a host
\* that does not name staging, a key of another format, and the
\* production server's values by mistake
StagingSettings ==
    { StagingCredentials,
      Unset,
      [StagingCredentials EXCEPT !.public_key = <<"your-staging-public-key">>],
      [StagingCredentials EXCEPT !.host = <<"https://langfuse.", "STAGING", ".example.com">>],
      [StagingCredentials EXCEPT !.host = <<"https://langfuse.", "example.com">>],
      [StagingCredentials EXCEPT !.secret_key = <<"sk-", "s2">>],
      ProductionCredentials }

\* what the *_PROD variables may hold
ProductionSettings ==
    { ProductionCredentials,
      Unset,
      [ProductionCredentials EXCEPT !.host = <<"https://langfuse.", "your-instance.com">>],
      [ProductionCredentials EXCEPT !.host = <<"https://langfuse.", "example.com">>] }

Environments == [STAGING : StagingSettings, PROD : ProductionSettings]

\* arsenal/.env: not found, or a file that sets both environments
DotEnvFiles ==
    { None, Some([STAGING |-> StagingCredentials, PROD |-> ProductionCredentials]) }

IsSet(setting) ==
    /\ Len(setting.public_key) > 0
    /\ Len(setting.secret_key) > 0
    /\ Len(setting.host) > 0

\* load_arsenal_env: nothing is read when the staging variables are set;
\* otherwise arsenal/.env is found and its values are put in the environment
load_arsenal_env(environ, dotenv) ==
    IF IsSet(environ.STAGING)
    THEN [ok |-> TRUE, environ |-> environ]
    ELSE IF IsNone(dotenv)
         THEN [ok |-> FALSE, environ |-> environ]
         ELSE [ok |-> TRUE,
               environ |-> [e \in DOMAIN environ |->
                               IF IsSet(dotenv[1][e]) THEN dotenv[1][e]
                               ELSE environ[e]]]

\* LANGFUSE_PUBLIC_KEY, LANGFUSE_SECRET_KEY and LANGFUSE_HOST are set from
\* the variables of the environment
select_credentials(environment, environ) ==
    IF environment = "staging" THEN environ.STAGING ELSE environ.PROD

validate_credentials(environment, c) ==
    IF ~IsSet(c) THEN None
    ELSE IF \E pattern \in placeholder_patterns :
               \/ Contains(lower(c.public_key), pattern)
               \/ Contains(lower(c.secret_key), pattern)
               \/ Contains(lower(c.host), pattern)
         THEN None
    ELSE IF environment = "staging" /\ ~Contains(lower(c.host), "staging")
         THEN None
    ELSE IF environment = "production" /\ ~Contains(lower(c.host), "prod")
         THEN None
    ELSE IF ~startswith(c.public_key, "pk-lf-") THEN None
    ELSE IF ~startswith(c.secret_key, "sk-lf-") THEN None
    ELSE Some(c)

\* the arguments that are neither -m, nor its value, nor a -- flag
RECURSIVE prompt_names_from(_, _, _)
prompt_names_from(args, i, skip_next) ==
    IF i > Len(args) THEN <<>>
    ELSE IF skip_next THEN prompt_names_from(args, i + 1, FALSE)
    ELSE IF args[i] \in {"-m", "--message"}
         THEN prompt_names_from(args, i + 1, TRUE)
    ELSE IF args[i] \notin {"--production", "--help", "--message"}
         THEN <<args[i]>> \o prompt_names_from(args, i + 1, FALSE)
    ELSE prompt_names_from(args, i + 1, FALSE)

wants_help(args) ==
    Len(args) = 0 \/ Contains(args, "--help") \/ Contains(args, "-h")

\* requests.post(f"{host}/api/public/v2/prompts", auth=(public_key, secret_key))
Request(name, c) ==
    [name |-> name, host |-> c.host,
     auth |-> <<c.public_key, c.secret_key>>]

Responses == {"200", "401", "ConnectionError"}

\* the first -m that has an argument after it gives the commit message
RECURSIVE commit_message_from(_, _)
commit_message_from(args, i) ==
    IF i > Len(args) THEN None
    ELSE IF args[i] \in {"-m", "--message"} /\ i + 1 <= Len(args)
         THEN Some(args[i + 1])
    ELSE commit_message_from(args, i + 1)

\* json.load of <name>_production_config.json: a mapping, which may be empty
\* and may itself hold labels
PromptConfigs ==
    { <<>>, [model |-> "gpt"], [labels |-> <<"production">>] }

\* read_prompt_from_cache: None when the prompt file is not in the cache,
\* else the text, with the config when the config file exists
CachedPrompts ==
    {None} \cup {Some([prompt |-> "text"])}
           \cup {Some([prompt |-> "text", config |-> c]) : c \in PromptConfigs}

\* a payload that is given the label of its environment
push_payload_labelled(prompt_name, prompt_data, commit_message) ==
    [name |-> prompt_name, type |-> "text", prompt |-> prompt_data.prompt,
     labels |-> <<"production">>, tags |-> <<"pushed-from-cli">>,
     commitMessage |-> commit_message]

\* push_prompt: the JSON body of the request
push_payload(prompt_name, prompt_data, commit_message) ==
    LET payload ==
          [name |-> prompt_name, type |-> "text",
           prompt |-> prompt_data.prompt,
           tags |-> <<"pushed-from-cli">>,
           commitMessage |-> IF IsNone(commit_message)
                             THEN "Updated from CLI at <now>"
                             ELSE commit_message[1]]
    IN  IF "config" \in DOMAIN prompt_data
        THEN payload @@ [config |-> prompt_data.config]
        ELSE payload

InitPush ==
    /\ db = "none"
    /\ conn = "closed"
    /\ fs = InstalledFs
    /\ config = EmptyConfig
    /\ rows = <<>>
    /\ code_elements = <<>>
    /\ schema = FullSchema
    /\ call = NoCall
    /\ \E args \in CommandLines, environ \in Environments, dotenv \in DotEnvFiles :
          proc = [cmd |-> "push", pc |-> "start", args |-> args,
                  environ |-> environ, dotenv |-> dotenv,
                  prompt_names |-> <<>>, environment |-> "staging",
                  answer |-> None, asked |-> FALSE, credentials |-> None,
                  next |-> 1, success_count |-> 0, posted |-> <<>>,
                  payloads |-> <<>>, status |-> None]

\* main up to the confirmation prompt
push_main ==
    /\ proc.cmd = "push" /\ proc.pc = "start"
    /\ LET args == proc.args
           use_production == Contains(args, "--production")
           names == prompt_names_from(args, 1, FALSE)
       IN  proc' =
             IF wants_help(args)
             THEN [proc EXCEPT !.pc = "done", !.status = Some(0)]
             ELSE IF Len(names) = 0
             THEN [proc EXCEPT !.pc = "done", !.status = Some(1)]
             ELSE [proc EXCEPT
                     !.pc = IF use_production THEN "confirm" ELSE "load",
                     !.prompt_names = names,
                     !.environment =
                        IF use_production THEN "production" ELSE "staging"]
    /\ UNCHANGED <<db, conn, config, rows, code_elements, call, fs, schema>>

\* the confirmation prompt of a production run
push_confirm(answer) ==
    /\ proc.cmd = "push" /\ proc.pc = "confirm"
    /\ proc' =
         IF IsNone(answer)
         THEN [proc EXCEPT !.pc = "raised", !.asked = TRUE]
         ELSE IF ~confirmed(answer[1])
         THEN [proc EXCEPT !.pc = "done", !.asked = TRUE,
                           !.answer = answer, !.status = Some(0)]
         ELSE [proc EXCEPT !.pc = "load", !.asked = TRUE, !.answer = answer]
    /\ UNCHANGED <<db, conn, config, rows, code_elements, call, fs, schema>>

\* main from load_arsenal_env to the check of the cache directory
push_load(cache_dir_exists) ==
    /\ proc.cmd = "push" /\ proc.pc = "load"
    /\ LET loaded == load_arsenal_env(proc.environ, proc.dotenv)
           selected == select_credentials(proc.environment, loaded.environ)
           credentials == validate_credentials(proc.environment, selected)
       IN  proc' =
             IF ~loaded.ok
             THEN [proc EXCEPT !.pc = "done", !.status = Some(1)]
             ELSE IF IsNone(credentials) \/ ~cache_dir_exists
             THEN [proc EXCEPT !.pc = "done", !.status = Some(1),
                               !.environ = loaded.environ]
             ELSE [proc EXCEPT !.pc = "push", !.environ = loaded.environ,
                               !.credentials = credentials]
    /\ UNCHANGED <<db, conn, config, rows, code_elements, call, fs, schema>>

\* one turn of the loop over the prompt names: a prompt that is not in the
\* cache is skipped, any other is posted
push_prompt(prompt_data, response) ==
    /\ proc.cmd = "push" /\ proc.pc = "push"
    /\ proc.next <= Len(proc.prompt_names)
    /\ proc' =
         IF IsNone(prompt_data)
         THEN [proc EXCEPT !.next = @ + 1]
         ELSE [proc EXCEPT
                 !.next = @ + 1,
                 !.posted = Append(@, Request(proc.prompt_names[proc.next],
                                              proc.credentials[1])),
                 !.payloads =
                    Append(@, push_payload(proc.prompt_names[proc.next],
                                           prompt_data[1],
                                           commit_message_from(proc.args, 1))),
                 !.success_count = IF response = "200" THEN @ + 1 ELSE @]
    /\ UNCHANGED <<db, conn, config, rows, code_elements, call, fs, schema>>

\* the summary, and the exit status
push_summary ==
    /\ proc.cmd = "push" /\ proc.pc = "push"
    /\ proc.next > Len(proc.prompt_names)
    /\ proc' = [proc EXCEPT
                  !.pc = "done",
                  !.status = IF proc.success_count < Len(proc.prompt_names)
                             THEN Some(1) ELSE Some(0)]
    /\ UNCHANGED <<db, conn, config, rows, code_elements, call, fs, schema>>

NextPush ==
    \/ push_main
    \/ \E answer \in Answers : push_confirm(answer)
    \/ \E cache_dir_exists \in BOOLEAN : push_load(cache_dir_exists)
    \/ \E prompt_data \in CachedPrompts, response \in Responses :
          push_prompt(prompt_data, response)
    \/ push_summary

SpecPush == InitPush /\ [][NextPush]_vars

PushRun == proc.cmd = "push"

GivenProductionFlag == Contains(proc.args, "--production")

\* a request that went to the production host or carried a production key
ToProduction(request) ==
    \/ request.host = ProductionCredentials.host
    \/ request.auth[1] = ProductionCredentials.public_key
    \/ request.auth[2] = ProductionCredentials.secret_key

MaxPages == 2

page_size == 100

\* prompts as the production server lists them
PromptA == [name |-> "a", prompt |-> "ta", labels |-> <<"production">>, config |-> <<>>]

PromptB ==
    [name |-> "b", prompt |-> "tb", labels |-> <<"production", "latest">>,
     config |-> [labels |-> <<"production">>]]

PromptC == [name |-> "c", prompt |-> "tc", labels |-> <<"latest">>]

PromptE == [name |-> "e", labels |-> <<"production">>]

\* the listed prompts of a page that are told apart
PageData == {<<>>, <<PromptA>>, <<PromptC, PromptB>>, <<PromptE>>, <<PromptB, PromptA>>}

\* what a GET of one page comes back with: size is the number of prompts
\* on the page, which is page_size when the page is full
PageResponses ==
    UNION {{[status |-> "200", data |-> d, size |-> n] :
               n \in {Len(d), page_size}} : d \in PageData}
    \cup {[status |-> "500", data |-> <<>>, size |-> 0],
          [status |-> "ConnectionError", data |-> <<>>, size |-> 0]}

sync_placeholder_patterns ==
    {"your-key-here", "your-public-key", "your-secret-key", "your-instance.com"}

\* validate_credentials(env_vars, server_type) of sync_prod_to_staging.py
sync_validate_credentials(env_vars, server_type) ==
    LET c == env_vars[server_type]
    IN  IF ~IsSet(c) THEN None
        ELSE IF \E pattern \in sync_placeholder_patterns :
                   \/ Contains(lower(c.public_key), pattern)
                   \/ Contains(lower(c.secret_key), pattern)
                   \/ Contains(lower(c.host), pattern)
             THEN None
        ELSE IF ~startswith(c.public_key, "pk-lf-") THEN None
        ELSE IF ~startswith(c.secret_key, "sk-lf-") THEN None
        ELSE IF ~Contains(lower(c.host), LowerCase(server_type)) THEN None
        ELSE Some(c)

\* the prompts of a page that carry the label
RECURSIVE with_label(_, _)
with_label(prompts, label) ==
    IF Len(prompts) = 0 THEN <<>>
    ELSE IF "labels" \in DOMAIN Head(prompts) /\ Contains(Head(prompts).labels, label)
         THEN <<Head(prompts)>> \o with_label(Tail(prompts), label)
         ELSE with_label(Tail(prompts), label)

RECURSIVE named(_, _)
named(prompts, name) ==
    IF Len(prompts) = 0 THEN <<>>
    ELSE IF Head(prompts).name = name
         THEN <<Head(prompts)>> \o named(Tail(prompts), name)
         ELSE named(Tail(prompts), name)

\* a payload that copies the labels of the source prompt
sync_payload_copied(prompt) ==
    [name |-> prompt.name, type |-> "text", prompt |-> prompt.prompt,
     labels |-> prompt.labels,
     tags |-> <<"auto-synced", "synced-from-prod">>,
     commitMessage |-> "Synced from production server at <now>"]

\* push_prompt_to_server: the JSON body made of the prompt's name, text and
\* config; an empty config is left out
sync_payload(prompt) ==
    LET payload ==
          [name |-> prompt.name, type |-> "text", prompt |-> prompt.prompt,
           tags |-> <<"auto-synced", "synced-from-prod">>,
           commitMessage |-> "Synced from production server at <now>"]
    IN  IF "config" \in DOMAIN prompt /\ prompt.config # <<>>
        THEN payload @@ [config |-> prompt.config]
        ELSE payload

\* a request as the server sees it
Sent(method, c, payload) ==
    [method |-> method, host |-> c.host,
     auth |-> <<c.public_key, c.secret_key>>, payload |-> payload]

\* arsenal/.env: not found, or the variables it sets
EnvFiles == {None} \cup {Some(e) : e \in Environments}

\* what is typed at "Proceed with sync? [y/N]"; None is the end of input
SyncAnswers ==
    { Some(<<"y">>), Some(<<"Y">>), Some(<<" ", "y">>), Some(<<"n">>),
      Some(Yes), Some(<<>>), None }

PromptFilters == {None, Some("a"), Some("z")}

\* a confirmation that goes on unless the answer is "n"
proceeds_unless_n(response) == lower(response) # <<"n">>

\* response.lower() == "y"
proceeds(response) == lower(response) = <<"y">>

InitSync ==
    /\ db = "none"
    /\ conn = "closed"
    /\ fs = InstalledFs
    /\ config = EmptyConfig
    /\ rows = <<>>
    /\ code_elements = <<>>
    /\ schema = FullSchema
    /\ call = NoCall
    /\ \E prompt_filter \in PromptFilters, auto_confirm \in BOOLEAN,
          env_file \in EnvFiles :
          proc = [cmd |-> "sync", pc |-> "start",
                  prompt_filter |-> prompt_filter,
                  auto_confirm |-> auto_confirm, env_file |-> env_file,
                  prod_creds |-> None, staging_creds |-> None,
                  page |-> 1, all_prompts |-> <<>>, prod_prompts |-> <<>>,
                  answer |-> None, asked |-> FALSE, next |-> 1,
                  success_count |-> 0, requests |-> <<>>, status |-> None]

\* main: the environment file and the credentials of both servers
sync_main ==
    /\ proc.cmd = "sync" /\ proc.pc = "start"
    /\ proc' =
         IF IsNone(proc.env_file)
         THEN [proc EXCEPT !.pc = "done", !.status = Some(1)]
         ELSE LET prod_creds == sync_validate_credentials(proc.env_file[1], "PROD")
                  staging_creds == sync_validate_credentials(proc.env_file[1], "STAGING")
              IN  IF IsNone(prod_creds) \/ IsNone(staging_creds)
                  THEN [proc EXCEPT !.pc = "done", !.status = Some(1)]
                  ELSE [proc EXCEPT !.pc = "fetch",
                                    !.prod_creds = prod_creds,
                                    !.staging_creds = staging_creds]
    /\ UNCHANGED <<db, conn, config, rows, code_elements, call, fs, schema>>

\* sync_prompts after get_all_prompts has returned all_prompts, up to the
\* confirmation prompt
after_fetch(p, all_prompts) ==
    LET prod_prompts ==
          IF IsNone(p.prompt_filter) THEN all_prompts
          ELSE named(all_prompts, p.prompt_filter[1])
    IN  IF Len(all_prompts) = 0 \/ Len(prod_prompts) = 0
        THEN [p EXCEPT !.pc = "done", !.all_prompts = all_prompts,
                       !.status = Some(0)]
        ELSE [p EXCEPT !.pc = IF p.auto_confirm THEN "sync" ELSE "confirm",
                       !.all_prompts = all_prompts,
                       !.prod_prompts = prod_prompts]

\* get_all_prompts: one turn of the loop over the pages, and, when the loop
\* ends, sync_prompts up to the confirmation prompt
sync_get(response) ==
    /\ proc.cmd = "sync" /\ proc.pc = "fetch"
    /\ proc.page = MaxPages => response.size < page_size
    /\ LET sent == [proc EXCEPT
                      !.requests = Append(@, Sent("GET", proc.prod_creds[1], None))]
           all_prompts == proc.all_prompts \o with_label(response.data, "production")
       IN  proc' =
             IF response.status # "200" \/ response.size = 0
             THEN after_fetch(sent, proc.all_prompts)
             ELSE IF response.size < page_size
             THEN after_fetch(sent, all_prompts)
             ELSE [sent EXCEPT !.all_prompts = all_prompts, !.page = @ + 1]
    /\ UNCHANGED <<db, conn, config, rows, code_elements, call, fs, schema>>

\* sync_prompts: the confirmation prompt
sync_confirm(answer) ==
    /\ proc.cmd = "sync" /\ proc.pc = "confirm"
    /\ proc' =
         IF IsNone(answer)
         THEN [proc EXCEPT !.pc = "raised", !.asked = TRUE]
         ELSE IF ~proceeds(answer[1])
         THEN [proc EXCEPT !.pc = "done", !.asked = TRUE, !.answer = answer,
                           !.status = Some(0)]
         ELSE [proc EXCEPT !.pc = "sync", !.asked = TRUE, !.answer = answer]
    /\ UNCHANGED <<db, conn, config, rows, code_elements, call, fs, schema>>

\* sync_prompts: one turn of the loop over prod_prompts; a listed prompt
\* without its text ends the run with a KeyError
sync_push(response) ==
    /\ proc.cmd = "sync" /\ proc.pc = "sync"
    /\ proc.next <= Len(proc.prod_prompts)
    /\ LET prompt == proc.prod_prompts[proc.next]
       IN  proc' =
             IF "prompt" \notin DOMAIN prompt
             THEN [proc EXCEPT !.pc = "raised"]
             ELSE [proc EXCEPT
                     !.next = @ + 1,
                     !.requests = Append(@, Sent("POST", proc.staging_creds[1],
                                                 Some(sync_payload(prompt)))),
                     !.success_count = IF response = "200" THEN @ + 1 ELSE @]
    /\ UNCHANGED <<db, conn, config, rows, code_elements, call, fs, schema>>

\* sync_prompts: the summary
sync_summary ==
    /\ proc.cmd = "sync" /\ proc.pc = "sync"
    /\ proc.next > Len(proc.prod_prompts)
    /\ proc' = [proc EXCEPT !.pc = "done", !.status = Some(0)]
    /\ UNCHANGED <<db, conn, config, rows, code_elements, call, fs, schema>>

NextSync ==
    \/ sync_main
    \/ \E response \in PageResponses : sync_get(response)
    \/ \E answer \in SyncAnswers : sync_confirm(answer)
    \/ \E response \in Responses : sync_push(response)
    \/ sync_summary

\* a run of either script
InitScripts == InitPush \/ InitSync

NextScripts == NextPush \/ NextSync

SpecScripts == InitScripts /\ [][NextScripts]_vars

SyncRun == proc.cmd = "sync"

\* C21: no create-prompt request of push_to_staging or of
\* sync_prod_to_staging has a 'labels' field in its payload, whatever the
\* prompt, the environment and the config, a config or a source prompt
\* that holds labels included.
C21_NoLabelEverPushed ==
    /\ PushRun =>
          \A k \in 1..Len(proc.payloads) :
              "labels" \notin DOMAIN proc.payloads[k]
    /\ SyncRun =>
          \A k \in 1..Len(proc.requests) :
              proc.requests[k].method = "POST" =>
                  "labels" \notin DOMAIN proc.requests[k].payload[1]

C21_Witness ==
    /\ SyncRun
    /\ proc.pc = "done"
    /\ \E k \in 1..Len(proc.requests) :
          /\ proc.requests[k].method = "POST"
          /\ "config" \in DOMAIN proc.requests[k].payload[1]
          /\ proc.requests[k].payload[1].config = [labels |-> <<"production">>]

ProductionKeys(request) ==
    request.auth = <<proc.env_file[1].PROD.public_key,
                     proc.env_file[1].PROD.secret_key>>

ToStaging(request) ==
    /\ request.host = proc.env_file[1].STAGING.host
    /\ request.auth = <<proc.env_file[1].STAGING.public_key,
                        proc.env_file[1].STAGING.secret_key>>

IsNonNullCond(text, i) == text[CondOp(text, i)] = "IS NOT NULL"

IsTimeCond(text, i) ==
    /\ text[CondOp(text, i)] = ">="
    /\ text[CondOp(text, i) + 1] = "NOW() - INTERVAL"

IsConfidenceCond(text, i) ==
    /\ text[CondOp(text, i)] = ">="
    /\ text[CondOp(text, i) + 1] = "%s"

CondColumn(text, i) == text[CondOp(text, i) - 1]

HoursPassed == {f[1] : f \in FilterArgs}

ConfidencesPassed == {f[2] : f \in FilterArgs}

\* C23: the predicate of every compiled statement requires the embedding
\* column to be non-null, holds a time predicate exactly when the table
\* configures time_column and a confidence predicate exactly when it
\* configures confidence_column; a value passed for a filter the table does
\* not configure changes neither the statement nor the parameter list.
C23_PredicatesFollowConfig ==
    ConfiguredSearch =>
        LET tc == config.tables[call.args.table_name]
            f  == tc.filters
            a  == call.args
        IN  \A k \in 1..Len(call.executed) :
              LET stmt == call.executed[k]
                  text == stmt.text
              IN  /\ \E i \in CondStarts(text) :
                        /\ IsNonNullCond(text, i)
                        /\ CondColumn(text, i) = tc.embedding_column
                  /\ (\E i \in CondStarts(text) : IsTimeCond(text, i))
                        <=> ~IsNone(f.time_column)
                  /\ (\E i \in CondStarts(text) : IsConfidenceCond(text, i))
                        <=> ~IsNone(f.confidence_column)
                  /\ \A i \in CondStarts(text) :
                        /\ IsTimeCond(text, i) => CondColumn(text, i) = Get(f.time_column)
                        /\ IsConfidenceCond(text, i) =>
                              CondColumn(text, i) = Get(f.confidence_column)
                  /\ IsNone(f.time_column) =>
                        \A h \in HoursPassed :
                            stmt = compiled(tc, a.query_embedding, a.limit, h,
                                            a.min_confidence)
                  /\ IsNone(f.confidence_column) =>
                        \A c \in ConfidencesPassed :
                            stmt = compiled(tc, a.query_embedding, a.limit,
                                            a.hours, c)

C23_Witness ==
    /\ ConfiguredSearch
    /\ call.args.table_name = "notes"
    /\ call.args.hours = Some(24)
    /\ call.args.min_confidence = Some(3)
    /\ call.outcome = "returned"
    /\ Len(call.results) = 1

\* the value the placeholder at position p of the statement of the last
\* search stands for
ExpectedAt(text, p) ==
    LET tc == config.tables[call.args.table_name]
        a  == call.args
    IN  IF p = SelectOp(text) + 1 \/ p = OrderOp(text) + 1
        THEN AdaptList(a.query_embedding)
        ELSE IF p = Pos(text, "LIMIT") + 1 THEN AdaptNum(a.limit)
        ELSE IF \E i \in CondStarts(text) :
                   IsTimeCond(text, i) /\ CondPlaceholder(text, i) = p
        THEN AdaptNum(IF ~IsNone(a.hours) THEN Get(a.hours)
                      ELSE IF ~IsNone(tc.filters.default_hours)
                           THEN Get(tc.filters.default_hours)
                      ELSE DefaultHours)
        ELSE AdaptNum(IF ~IsNone(a.min_confidence) THEN Get(a.min_confidence)
                      ELSE IF ~IsNone(tc.filters.default_min_confidence)
                           THEN Get(tc.filters.default_min_confidence)
                      ELSE DefaultMinConfidence)

\* C24: for every combination of configured filters the parameter list has
\* exactly one value per placeholder of the statement, in placeholder order:
\* the query vector of the projection, the hours if there is a time
\* predicate, the confidence bound if there is a confidence predicate, the
\* query vector of the ordering, the limit.
C24_OneParameterPerPlaceholder ==
    ConfiguredSearch =>
        \A k \in 1..Len(call.executed) :
            LET text == call.executed[k].text
                ps   == call.executed[k].params
            IN  /\ Len(ps) = Cardinality(Placeholders(text))
                /\ \A p \in Placeholders(text) :
                      ParamAt(text, ps, p) = ExpectedAt(text, p)
                /\ SelectOp(text) < Pos(text, "WHERE")
                /\ \A i, j \in CondStarts(text) :
                      (IsTimeCond(text, i) /\ IsConfidenceCond(text, j)) => i < j
                /\ Pos(text, "WHERE") < OrderOp(text)
                /\ OrderOp(text) < Pos(text, "LIMIT")

C24_Witness ==
    /\ ConfiguredSearch
    /\ call.args.table_name = "events"
    /\ call.args.hours = Some(24)
    /\ call.args.min_confidence = Some(3)
    /\ Len(call.executed) = 1
    /\ Len(call.executed[1].params) = 5
    /\ call.outcome = "returned"

\* the default alias, the first letter of the table name
AliasOf(tc) == IF IsNone(tc.alias) THEN FirstLetter(tc.table) ELSE tc.alias[1]

\* C25: the source clause of the compiled statement is the table with its
\* alias followed by every configured join, each once and in the order of
\* the configuration.
C25_JoinsInConfiguredOrder ==
    ConfiguredSearch =>
        LET tc == config.tables[call.args.table_name]
        IN  \A k \in 1..Len(call.executed) :
              LET text == call.executed[k].text
              IN  SubSeq(text, Pos(text, "FROM") + 1, Pos(text, "WHERE") - 1)
                      = <<tc.table, AliasOf(tc)>> \o tc.joins

C25_Witness ==
    /\ ConfiguredSearch
    /\ call.args.table_name = "messages"
    /\ Len(config.tables["messages"].joins) = 2
    /\ Len(call.executed) = 1
    /\ call.outcome = "returned"

\* the projection and the ordering of a statement name the same column, the
\* same distance operator and the same vector
SameDistanceExpression(stmt) ==
    LET text == stmt.text
        s    == SelectOp(text)
        o    == OrderOp(text)
    IN  /\ text[s] = text[o]
        /\ text[s - 1] = text[o - 1]
        /\ text[s - 2] = "." => (text[o - 2] = "." /\ text[s - 3] = text[o - 3])
        /\ text[o - 2] = "." => text[s - 2] = "."
        /\ text[s + 1] = "%s" /\ text[o + 1] = "%s"
        /\ ParamAt(text, stmt.params, s + 1) = ParamAt(text, stmt.params, o + 1)
        /\ text[OrderEnd(text)] \notin {"DESC"}

\* descending order of scores as the store orders numbers: NaN is above
\* every number
ScoreNotBelow(s, t) == IsNaN(s) \/ ScoreGeq(s, t)

\* C26 as claimed: the ordering uses the same embedding column, the same
\* distance metric and the same query vector as the projected score, in
\* search and in search_similar, and the order of the results, ascending by
\* distance, is exactly the descending order of the projected scores.
C26_DistanceOrderIsScoreOrder ==
    (StoreSearch /\ Len(call.executed) > 0) =>
        /\ \A k \in 1..Len(call.executed) : SameDistanceExpression(call.executed[k])
        /\ call.outcome = "returned" =>
              \A k \in 1..(Len(call.results) - 1) :
                  ScoreNotBelow(call.results[k].score, call.results[k + 1].score)

\* C26 as amended: the same, where the order of the results is the
\* descending order of the projected scores that are numbers, and the results
\* whose score is NaN (a zero-norm vector) come last, though NaN is above
\* every number in a descending order of scores.
C26_DistanceOrderIsDefinedScoreOrder ==
    (StoreSearch /\ Len(call.executed) > 0) =>
        /\ \A k \in 1..Len(call.executed) : SameDistanceExpression(call.executed[k])
        /\ call.outcome = "returned" =>
              \A k \in 1..(Len(call.results) - 1) :
                  \/ IsNaN(call.results[k + 1].score)
                  \/ ScoreGeq(call.results[k].score, call.results[k + 1].score)

C26_Witness ==
    /\ ConfiguredSearch
    /\ call.outcome = "returned"
    /\ SameDistanceExpression(call.executed[1])
    /\ Len(call.results) = 2
    /\ ScoreLess(call.results[2].score, call.results[1].score)

\* ---------------------------------------------------------------------
\* assess_onboardings.py: the time decay of the engagement temperature
\* ---------------------------------------------------------------------

\* the longest silence of a row, in days
MaxDays == 16

DECAY_THRESHOLD_1 == 3

DECAY_THRESHOLD_2 == 7

DECAY_THRESHOLD_3 == 14

TEMP_ORDER == <<"COLD", "WARM", "HOT">>

\* TEMP_ORDER.index(temp), counted from 0
TempIndex(temp) == (CHOOSE i \in 1..Len(TEMP_ORDER) : TEMP_ORDER[i] = temp) - 1

Max(a, b) == IF a >= b THEN a ELSE b

\* a decay whose thresholds are compared with < instead of <=
apply_time_decay_strict(original_temp, days_silent) ==
    IF ~Contains(TEMP_ORDER, original_temp) THEN "COLD"
    ELSE IF ~IsNone(days_silent) /\ days_silent[1] >= DECAY_THRESHOLD_3 THEN "COLD"
    ELSE LET decay_levels ==
               IF IsNone(days_silent) \/ days_silent[1] < DECAY_THRESHOLD_1 THEN 0
               ELSE IF days_silent[1] < DECAY_THRESHOLD_2 THEN 1
               ELSE 2
         IN  TEMP_ORDER[Max(0, TempIndex(original_temp) - decay_levels) + 1]

apply_time_decay(original_temp, days_silent) ==
    IF ~Contains(TEMP_ORDER, original_temp) THEN "COLD"
    ELSE IF ~IsNone(days_silent) /\ days_silent[1] > DECAY_THRESHOLD_3 THEN "COLD"
    ELSE LET decay_levels ==
               IF IsNone(days_silent) \/ days_silent[1] <= DECAY_THRESHOLD_1 THEN 0
               ELSE IF days_silent[1] <= DECAY_THRESHOLD_2 THEN 1
               ELSE 2
         IN  TEMP_ORDER[Max(0, TempIndex(original_temp) - decay_levels) + 1]

\* what assess_original_temperature may give, and a value it never gives
Temperatures == {"COLD", "WARM", "HOT", "UNKNOWN"}

DaysValues == {None} \cup {Some(d) : d \in 0..MaxDays}

\* days_since_last_msg, or days_since_onboarding, or 0
days_silent_of(row) ==
    IF ~IsNone(row.days_since_last_msg) THEN row.days_since_last_msg
    ELSE IF ~IsNone(row.days_since_onboarding) /\ row.days_since_onboarding[1] # 0
         THEN row.days_since_onboarding
    ELSE Some(0)

InitAssess ==
    /\ db = "none"
    /\ conn = "closed"
    /\ fs = InstalledFs
    /\ config = EmptyConfig
    /\ rows = <<>>
    /\ code_elements = <<>>
    /\ schema = FullSchema
    /\ call = NoCall
    /\ \E t \in Temperatures, m \in DaysValues, o \in {None, Some(0), Some(MaxDays)} :
          proc = [cmd |-> "assess", pc |-> "start",
                  row |-> [original_temp |-> t, days_since_last_msg |-> m,
                           days_since_onboarding |-> o],
                  days_silent |-> None, current_temp |-> None]

\* generate_report: the current temperature of the row
generate_report ==
    /\ proc.cmd = "assess" /\ proc.pc = "start"
    /\ LET days_silent == days_silent_of(proc.row)
       IN  proc' = [proc EXCEPT
                      !.pc = "done",
                      !.days_silent = days_silent,
                      !.current_temp =
                         Some(apply_time_decay(proc.row.original_temp, days_silent))]
    /\ UNCHANGED <<db, conn, config, rows, code_elements, call, fs, schema>>

NextAssess == generate_report

SpecAssess == InitAssess /\ [][NextAssess]_vars

\* the level a known temperature has after dropping n levels, COLD at lowest
Dropped(temp, n) ==
    CASE temp = "HOT" /\ n = 0 -> "HOT"
      [] temp = "HOT" /\ n = 1 -> "WARM"
      [] temp = "WARM" /\ n = 0 -> "WARM"
      [] OTHER -> "COLD"

Heat(temp) == CASE temp = "HOT" -> 2 [] temp = "WARM" -> 1 [] OTHER -> 0

\* C27: apply_time_decay follows the decay table for every original
\* temperature and every days_silent >= 0: 0-3 days keep the level, 4-7 days
\* drop one level, 8-14 days drop two, 15 or more days give COLD, never
\* below COLD; the result is never hotter than the original and never gets
\* hotter as days_silent grows; an unknown original temperature gives COLD.
C27_DecayTable ==
    (proc.cmd = "assess" /\ proc.pc = "done") =>
        LET t == proc.row.original_temp
            d == proc.days_silent[1]
            r == proc.current_temp[1]
        IN  /\ t \notin {"COLD", "WARM", "HOT"} => r = "COLD"
            /\ t \in {"COLD", "WARM", "HOT"} =>
                  /\ d \in 0..3 => r = t
                  /\ d \in 4..7 => r = Dropped(t, 1)
                  /\ d \in 8..14 => r = Dropped(t, 2)
                  /\ d >= 15 => r = "COLD"
                  /\ Heat(r) <= Heat(t)
                  /\ \A e \in 0..d :
                        Heat(r) <= Heat(apply_time_decay(t, Some(e)))

C27_Witness ==
    /\ proc.cmd = "assess" /\ proc.pc = "done"
    /\ proc.row.original_temp = "HOT"
    /\ proc.days_silent = Some(7)
    /\ proc.current_temp = Some("WARM")

\* ---------------------------------------------------------------------
\* cmd_find and cmd_stats, and the command line as a whole
\* ---------------------------------------------------------------------

\* VectorDB.stats: the four counts
stats(table) ==
    LET ids == 1..Len(table)
    IN  [total_elements |-> Len(table),
         functions |-> Cardinality({i \in ids : table[i].element_type = "function"}),
         classes |-> Cardinality({i \in ids : table[i].element_type = "class"}),
         unique_files |-> Cardinality({table[i].file_path : i \in ids})]

\* a `find` or a `stats` process; `find` is the cmd "find_code" here, the
\* cmd "find" being find-<table>
InitFind ==
    /\ db = "VectorDB"
    /\ conn = "closed"
    /\ fs = InstalledFs
    /\ config = load_table_config(None, fs)
    /\ rows = <<>>
    /\ schema \in SchemaStates
    /\ code_elements \in (IF "code_elements" \in schema THEN IndexStores ELSE {<<>>})
    /\ call = NoCall
    /\ \E cmd \in {"find_code", "stats"}, limit \in {0, 1} :
          proc = [cmd |-> cmd, pc |-> "start", limit |-> limit,
                  query_embedding |-> None, stats |-> None]

\* cmd_find up to the search: db = VectorDB(), then the embedding of the
\* query; the command returns when no embedding comes back
cmd_find(query_embedding) ==
    /\ proc.cmd = "find_code"
    /\ proc.pc = "start"
    /\ LET out == ensure_schema(schema)
       IN  /\ schema' = out.schema
           /\ IF out.status = "error"
              THEN /\ conn' = conn
                   /\ proc' = [proc EXCEPT !.pc = "raised"]
              ELSE /\ conn' = "open"
                   /\ proc' = [proc EXCEPT
                                 !.query_embedding = query_embedding,
                                 !.pc = IF Truthy(query_embedding) THEN "search"
                                        ELSE "done"]
    /\ UNCHANGED <<db, config, rows, code_elements, call, fs>>

\* cmd_find from db.search_similar on: the results are printed, or "No
\* results found", and db.close() is called; an error of the store ends
\* the process
cmd_find_search ==
    LET q    == Get(proc.query_embedding)
        args == [query_embedding |-> q, limit |-> proc.limit]
        stmt == similar(q, proc.limit)
    IN  /\ proc.cmd = "find_code"
        /\ proc.pc = "search"
        /\ \E out \in Execute(stmt.text, stmt.params, code_elements) :
              /\ call' = Outcome("search_similar", args, out, <<stmt>>)
              /\ IF out.status = "error"
                 THEN conn' = conn /\ proc' = [proc EXCEPT !.pc = "raised"]
                 ELSE conn' = "closed" /\ proc' = [proc EXCEPT !.pc = "done"]
        /\ UNCHANGED <<db, config, rows, code_elements, fs, schema>>

\* cmd_stats: db = VectorDB(), db.stats(), the printout, db.close()
cmd_stats ==
    /\ proc.cmd = "stats"
    /\ proc.pc = "start"
    /\ LET out == ensure_schema(schema)
       IN  /\ schema' = out.schema
           /\ IF out.status = "error"
              THEN /\ conn' = conn
                   /\ proc' = [proc EXCEPT !.pc = "raised"]
              ELSE /\ conn' = "closed"
                   /\ proc' = [proc EXCEPT !.pc = "done",
                                           !.stats = Some(stats(code_elements))]
    /\ UNCHANGED <<db, config, rows, code_elements, call, fs>>

NextFind ==
    \/ \E query_embedding \in {None, Some(E1)} : cmd_find(query_embedding)
    \/ cmd_find_search
    \/ cmd_stats

\* a process of any command of the command line
InitCommands == InitIndex \/ InitFind \/ InitConfig

\* the table commands of the command line
NextTable ==
    \/ \E command \in Commands : main(command)
    \/ cmd_list_tables
    \/ cmd_search_table
    \/ cmd_search_table_construct
    \/ cmd_search_table_search
    \/ cmd_search_table_close

NextCommands == NextIndex \/ NextFind \/ NextTable

SpecCommands == InitCommands /\ [][NextCommands]_vars

\* C28: every command that opens a store connection (index, find, stats,
\* find-<table>) has closed it whenever the command has returned normally,
\* the returns after "Failed to generate embedding for query" and after
\* "No results found" included.
C28_ConnectionClosedOnReturn ==
    (proc.cmd \in {"index", "find_code", "stats", "find"} /\ proc.pc = "done")
        => conn = "closed"

\* the default the engine applies to an omitted argument
EngineDefaults(tc) ==
    [hours |-> IF IsNone(tc.filters.time_column) THEN None
               ELSE Some(effective_hours(tc, None)),
     confidence |-> IF IsNone(tc.filters.confidence_column) THEN None
                    ELSE Some(effective_conf(tc, None))]

\* C29: for a table that configures confidence_column without
\* default_min_confidence, and likewise time_column without default_hours,
\* the default list-tables shows, the default find-<table> applies when the
\* option is omitted, and the default search applies to an argument of None
\* are one and the same value.
C29_OneDefaultEverywhere ==
    /\ (proc.cmd = "list-tables" /\ proc.pc = "done") =>
          \A t \in DOMAIN proc.listed[1] :
              proc.listed[1][t] = EngineDefaults(proc.checked[1][t])
    /\ (proc.cmd = "find" /\ proc.pc = "searched") =>
          LET tc == proc.registered[proc.table_name]
          IN  /\ IsNone(proc.options[1].hours) =>
                    /\ call.args.hours = listed_defaults(tc).hours
                    /\ call.args.hours = EngineDefaults(tc).hours
              /\ IsNone(proc.options[1].confidence) =>
                    /\ call.args.min_confidence = listed_defaults(tc).confidence
                    /\ call.args.min_confidence = EngineDefaults(tc).confidence

(***************************************************************************)
(* ProductionDB: the ConfigurableTableSearch with the two convenience      *)
(* methods of the production tables.  A caller passes hours and            *)
(* min_confidence or omits them (None below); an omitted argument takes    *)
(* the default of the method's signature, and the method hands the value   *)
(* to search by keyword.                                                   *)
(***************************************************************************)
\* def search_messages(self, query_embedding, limit=10, hours: int = 168)
SearchMessagesHours == 168

\* def search_facts(self, query_embedding, limit=10, min_confidence: float = 0.6),
\* in tenths
SearchFactsMinConfidence == 6

InitProduction ==
    /\ db = "ProductionDB"
    /\ conn = "open"
    /\ fs = InstalledFs
    /\ config = load_table_config(None, fs)
    /\ rows \in Stores
    /\ code_elements = <<>>
    /\ schema = FullSchema
    /\ call = NoCall
    /\ proc = NoProcess

\* the outcome of the inner search, as the outcome of the method called
Delegated(op, args, outcomes) ==
    {[o EXCEPT !.op = op, !.args = args] : o \in outcomes}

\* ProductionDB.search_messages
search_messages(query_embedding, limit, hours) ==
    LET args == [query_embedding |-> query_embedding, limit |-> limit,
                 hours |-> hours]
        passed == IF IsNone(hours) THEN Some(SearchMessagesHours) ELSE hours
    IN  /\ db = "ProductionDB"
        /\ conn = "open"
        /\ call.op = "none"
        /\ call' \in Delegated("search_messages", args,
                        search_outcomes(config, rows, "messages", query_embedding,
                                        limit, passed, None))
        /\ UNCHANGED <<db, conn, config, rows, code_elements, fs, schema, proc>>

\* ProductionDB.search_facts
search_facts(query_embedding, limit, min_confidence) ==
    LET args == [query_embedding |-> query_embedding, limit |-> limit,
                 min_confidence |-> min_confidence]
        passed == IF IsNone(min_confidence) THEN Some(SearchFactsMinConfidence)
                  ELSE min_confidence
    IN  /\ db = "ProductionDB"
        /\ conn = "open"
        /\ call.op = "none"
        /\ call' \in Delegated("search_facts", args,
                        search_outcomes(config, rows, "facts", query_embedding,
                                        limit, None, passed))
        /\ UNCHANGED <<db, conn, config, rows, code_elements, fs, schema, proc>>

NextProduction ==
    \/ \E q \in QueryVectors, l \in Limits, h \in {None, Some(24)} :
          search_messages(q, l, h)
    \/ \E q \in QueryVectors, l \in Limits, c \in {None, Some(3)} :
          search_facts(q, l, c)

SpecProduction == InitProduction /\ [][NextProduction]_vars

\* the call ended as one of the given outcomes of search ends
EndsAs(outcomes) ==
    \E o \in outcomes : /\ o.outcome = call.outcome
                        /\ o.error = call.error
                        /\ o.results = call.results

\* C30: search_facts(q, limit) without min_confidence returns what
\* search('facts', q, limit) returns without min_confidence, and
\* search_messages(q, limit) without hours returns what
\* search('messages', q, limit) returns without hours.
C30_ConvenienceAgreesWithSearch ==
    /\ (call.op = "search_facts" /\ IsNone(call.args.min_confidence)) =>
          EndsAs(search_outcomes(config, rows, "facts", call.args.query_embedding,
                                 call.args.limit, None, None))
    /\ (call.op = "search_messages" /\ IsNone(call.args.hours)) =>
          EndsAs(search_outcomes(config, rows, "messages", call.args.query_embedding,
                                 call.args.limit, None, None))

====
